---- MODULE Spec2Model ----
(***************************************************************************)
(* MelodyMind: mood logging, playlist generation, song recommendation,     *)
(* game sessions and analytics, as state machines over the document store. *)
(* Every request handler is one action; the store's collections are the    *)
(* state; `resp` holds the request last answered together with its answer. *)
(***************************************************************************)
EXTENDS Integers, Sequences, FiniteSets, TLC

VARIABLES now, resp, games, sessions, moodLogs, songs, playlists,
          files, inflight, tap, music, auth, breath

\* the server's document store and clock, and the request last answered
server == <<now, resp, games, sessions, moodLogs, songs, playlists>>

\* the requests the server is still working on, and the browser's components
\* and stores
browser == <<inflight, tap, music, auth, breath>>

vars == <<server, files, browser>>

-----------------------------------------------------------------------------
(* Bounds of the model *)

MaxSessions  == 2   \* game sessions ever started
MaxLogs      == 3   \* mood logs ever stored
MaxSongs     == 3   \* songs uploaded in the recommendation run
MaxCatalog   == 6   \* songs of the catalogue the playlist generator reads
MaxGameTicks == 1   \* clock steps of the game-session run
TicksPerSecond == 2 \* resolution of the clock
MaxMoodHours == 21  \* hours the clock of the mood-log run advances
MaxDays      == 20  \* days the clock of the analytics runs advances
MaxDashDocs  == 2   \* documents stored in the dashboard run
MaxEdgeLogs  == 3   \* mood logs stored in the run of requests at the limits
MaxAchSessions == 2 \* game sessions started in the achievements run
MaxByIdLogs  == 1   \* mood logs stored in the run of by-id mood requests
MaxPlays     == 1   \* play requests a playlist or a game is sent
MaxByIdDocs  == 1   \* documents stored in the run of by-id requests
MaxRateSessions == 1 \* game sessions started in the rating run
MaxRatings   == 2   \* ratings a game accepts in the rating run
MaxPendingLogins == 2 \* logins of the auth store that wait for their API call
MaxQueue == 3        \* songs in the music store's queue
MaxTimers == 2       \* timeouts of playSong that have not fired
MaxTapNotes == 2     \* notes made before the last round of the tap game starts
MaxInflight == 2     \* requests the server works on at once
MaxRaceSessions == 2 \* game sessions started in the run of interleaved requests
MaxRaceTicks == 1    \* seconds the clock advances in the run of interleaved requests
MaxRecentTicks == 3  \* steps of the clock in the run of the recent activity
MaxRecentLogs == 2   \* mood logs stored in the run of the recent activity
MaxRecentSessions == 4 \* game sessions started in the run of the recent activity
MaxUploads == 2      \* songs stored in the run of the upload directory
MaxUploadTicks == 1  \* steps of the clock in the run of the upload directory
MaxAverageRatings == 7 \* ratings a game accepts in the run of its average

Users == {"u1", "u2"}

\* the owner of a slot whose document was deleted: ids are never reused
NoOne == "nobody"

-----------------------------------------------------------------------------
(* Values a JavaScript field may lack: <<>> is null/undefined, <<v>> is v *)

Null == <<>>

Some(v) == <<v>>

IsNull(x) == x = <<>>

Val(x) == x[1]

\* the clock `now` stands for Date.now(), counted in ticks of 1/TicksPerSecond second:
\* two reads of the clock with no tick between them give the same timestamp
HourTicks == 60 * 60 * TicksPerSecond

DayTicks == 24 * HourTicks

NoResp == [op |-> "none", status |-> 0]

\* the clock advances by d ticks; no request is being handled, so no response is held
Tick(d) ==
    /\ now' = now + d
    /\ resp' = NoResp
    /\ UNCHANGED <<games, sessions, moodLogs, songs, playlists, files, browser>>

-----------------------------------------------------------------------------
(* JavaScript Numbers that are not whole: IEEE 754 doubles.  A double x in *)
(* {0} \cup [1, 64) is held as the whole number x * 2^53, written in four  *)
(* digits of base Limb, the most significant first.  A double has 53       *)
(* significant bits, so for x in [2^e, 2^(e+1)) that number is a multiple  *)
(* of 2^(e+1).                                                             *)

\* 2^15
Limb == 32768

\* the double of a whole number below 64: k * 2^53 = k * 2^8 * Limb^3
FromInt(k) == <<k * 256, 0, 0, 0>>

\* n * c + k for a whole number n in four digits and small whole numbers c and k
MulAdd(n, c, k) ==
    LET t4 == n[4] * c + k
        t3 == n[3] * c + t4 \div Limb
        t2 == n[2] * c + t3 \div Limb
        t1 == n[1] * c + t2 \div Limb
    IN  <<t1, t2 % Limb, t3 % Limb, t4 % Limb>>

\* the distance between neighbouring doubles around n / 2^53, times 2^53
Ulp(n) ==
    IF n[1] < 256 THEN 1
    ELSE CHOOSE p \in {2, 4, 8, 16, 32, 64} : p * 128 <= n[1] /\ n[1] < p * 256

\* round to nearest, ties to even: the double nearest to the exact value, which
\* is n / 2^53 plus something below 2^-53 that is not zero exactly when sticky holds
RoundDouble(n, sticky) ==
    LET u    == Ulp(n)
        low  == n[4] % u
        down == [n EXCEPT ![4] = @ - low]
        up   == \/ 2 * low > u
                \/ 2 * low = u /\ (sticky \/ (n[4] \div u) % 2 = 1)
    IN  IF up THEN MulAdd(down, 1, u) ELSE down

\* x * c for a double x and a whole number c
Times(x, c) == RoundDouble(MulAdd(x, c, 0), FALSE)

\* x + k for a double x and a whole number k
Plus(x, k) == RoundDouble([x EXCEPT ![1] = @ + k * 256], FALSE)

\* x / c for a double x and a whole number c > 0: long division, digit by digit
DividedBy(x, c) ==
    LET r1 == x[1] % c
        r2 == (r1 * Limb + x[2]) % c
        r3 == (r2 * Limb + x[3]) % c
        r4 == (r3 * Limb + x[4]) % c
    IN  RoundDouble(<<x[1] \div c, (r1 * Limb + x[2]) \div c,
                      (r2 * Limb + x[3]) \div c, (r3 * Limb + x[4]) \div c>>,
                    r4 # 0)

\* x <= y for doubles
LessEq(x, y) ==
    \/ x = y
    \/ \E i \in 1..4 : x[i] < y[i] /\ \A j \in 1..(i - 1) : x[j] = y[j]

-----------------------------------------------------------------------------
(* Game catalogue and game sessions *)

GameIds == {"g1", "g2"}

\* ids a request may name: the catalogue's and one that is in no collection
GameRefs == GameIds \cup {"gX"}

\* the catalogue is seeded outside the routes: g1 is active, g2 was retired.
\* `accepted` is no field of the document: it records how many rate requests the
\* game has answered with 200 and what their ratings add up to
InitGames ==
    [g \in GameIds |->
        [isActive |-> (g = "g1"), difficulty |-> "easy", estimatedDuration |-> 1,
         playCount |-> 0, averageRating |-> FromInt(0), ratingCount |-> 0,
         accepted |-> [n |-> 0, sum |-> 0]]]

NoGameData == [isFirstPlay |-> Null, expectedDuration |-> Null, averageScore |-> Null]

\* { ...a, ...b }: the keys b holds replace those of a
Spread(a, b) == [k \in DOMAIN a |-> IF IsNull(b[k]) THEN a[k] ELSE b[k]]

\* x || d on a number or null
OrElse(x, d) == IF IsNull(x) \/ Val(x) = 0 THEN d ELSE Val(x)

Truthy(x) == ~IsNull(x) /\ Val(x) # FALSE

NoMood == [mood |-> Null, intensity |-> Null]

moodImprovementBug(s) ==
    IF IsNull(s.moodAfter.intensity) \/ IsNull(s.moodBefore.intensity)
    THEN Null
    ELSE Some(Val(s.moodBefore.intensity) - Val(s.moodAfter.intensity))

\* the virtual moodImprovement of a session document
moodImprovement(s) ==
    IF \/ IsNull(s.moodAfter.intensity) \/ Val(s.moodAfter.intensity) = 0
       \/ IsNull(s.moodBefore.intensity) \/ Val(s.moodBefore.intensity) = 0
    THEN Null
    ELSE Some(Val(s.moodAfter.intensity) - Val(s.moodBefore.intensity))

\* the list calculateAchievements builds, in its order
calculateAchievements(s) ==
    (IF Truthy(s.gameData.isFirstPlay) THEN <<"first-play">> ELSE <<>>)
    \o (IF s.score = s.maxScore /\ s.maxScore > 0 THEN <<"perfect-score">> ELSE <<>>)
    \o (IF s.duration < OrElse(s.gameData.expectedDuration, 300)
        THEN <<"quick-finish">> ELSE <<>>)
    \o (IF ~IsNull(moodImprovement(s)) /\ Val(moodImprovement(s)) # 0
           /\ Val(moodImprovement(s)) >= 2
        THEN <<"mood-improver">> ELSE <<>>)
    \o (IF 2 * s.score > 3 * OrElse(s.gameData.averageScore, 0)
        THEN <<"high-scorer">> ELSE <<>>)

\* the document completeSession saves
completeSession(s, moodAfter, score, gameData, t) ==
    LET d == [s EXCEPT !.moodAfter = moodAfter,
                       !.score = score,
                       !.completed = TRUE,
                       !.completedAt = Some(t),
                       !.duration = (t - s.startedAt) \div TicksPerSecond,
                       !.gameData = Spread(s.gameData, gameData),
                       !.completionPercentage = 100]
    IN  [d EXCEPT !.achievements = calculateAchievements(d)]

\* GameSession.findOne({ sessionId, user }): positions of the matching documents
FindSession(sid, u) ==
    {i \in DOMAIN sessions : sessions[i].sessionId = sid /\ sessions[i].user = u}

\* GameSession.countDocuments({ user, game })
CountSessions(u, g) ==
    Cardinality({i \in DOMAIN sessions : sessions[i].user = u /\ sessions[i].game = g})

gameExistsOnlyBug(g) == g \in DOMAIN games

\* Game.findById(id) finds a game, and the game is active
GameAvailable(g) == g \in DOMAIN games /\ games[g].isActive

\* new GameSession({...}) of the start route, with the schema's defaults
newGameSession(u, g, sid, moodBefore, game, previousSessions, t) ==
    [user |-> u, game |-> g, sessionId |-> sid,
     moodBefore |-> moodBefore, moodAfter |-> NoMood,
     score |-> 0, maxScore |-> 0, duration |-> 0,
     completed |-> FALSE, completionPercentage |-> 0,
     difficulty |-> game.difficulty,
     gameData |-> [isFirstPlay |-> Some(previousSessions = 0),
                   expectedDuration |-> Some(game.estimatedDuration * 60),
                   averageScore |-> Null],
     achievements |-> <<>>, rating |-> Null, feedback |-> Null,
     startedAt |-> t, completedAt |-> Null, createdAt |-> t]

\* POST /api/games/:id/start
StartSession(u, g, moodBefore) ==
    LET sid == <<u, g, now>>
        doc == newGameSession(u, g, sid, moodBefore, games[g], CountSessions(u, g), now)
    IN
    IF ~GameAvailable(g)
    THEN /\ resp' = [op |-> "start", status |-> 404, user |-> u, game |-> g]
         /\ UNCHANGED <<games, sessions>>
    ELSE IF \E i \in DOMAIN sessions : sessions[i].sessionId = sid
    THEN \* sessionId is unique: save rejects the duplicate key
         /\ resp' = [op |-> "start", status |-> 500, user |-> u, game |-> g]
         /\ UNCHANGED <<games, sessions>>
    ELSE /\ sessions' = Append(sessions, doc)
         /\ games' = [games EXCEPT ![g].playCount = @ + 1]
         /\ resp' = [op |-> "start", status |-> 201, user |-> u, game |-> g]

completeAgainBug(done) == FALSE

\* the completed check of PUT /sessions/:sessionId/complete
AlreadyCompleted(done) == done

\* PUT /api/games/sessions/:sessionId/complete
CompleteSession(u, sid, moodAfter, score, maxScoreIn, gameData) ==
    LET found == FindSession(sid, u)
        maxScore == IF IsNull(maxScoreIn) THEN score ELSE Val(maxScoreIn)
    IN
    IF found = {}
    THEN /\ resp' = [op |-> "complete", status |-> 404, user |-> u, sessionId |-> sid]
         /\ UNCHANGED <<games, sessions>>
    ELSE LET i == CHOOSE j \in found : TRUE IN
         IF AlreadyCompleted(sessions[i].completed)
         THEN /\ resp' = [op |-> "complete", status |-> 400, user |-> u, sessionId |-> sid]
              /\ UNCHANGED <<games, sessions>>
         ELSE LET saved == completeSession([sessions[i] EXCEPT !.maxScore = maxScore],
                                           moodAfter, score, gameData, now)
              IN /\ sessions' = [sessions EXCEPT ![i] = saved]
                 /\ resp' = [op |-> "complete", status |-> 200, user |-> u,
                             sessionId |-> sid,
                             moodImprovement |-> Val(moodAfter.intensity)
                                                 - Val(saved.moodBefore.intensity),
                             achievements |-> saved.achievements,
                             duration |-> saved.duration]
                 /\ UNCHANGED games

\* request bodies of the game routes that pass validation
StartBodies ==
    {[mood |-> Some("sad"), intensity |-> Some(3)],
     [mood |-> Some("anxious"), intensity |-> Some(5)]}

CompleteBodies ==
    {[moodAfter |-> [mood |-> Some("calm"), intensity |-> Some(5)],
      score |-> 4, maxScore |-> Null, gameData |-> NoGameData],
     [moodAfter |-> [mood |-> Some("happy"), intensity |-> Some(8)],
      score |-> 2, maxScore |-> Some(4),
      gameData |-> [NoGameData EXCEPT !.averageScore = Some(4)]]}

\* session ids a request may name: the stored ones and one that is not stored
SessionRefs == {sessions[i].sessionId : i \in DOMAIN sessions} \cup {<<"u1", "gX", 0>>}

\* the clock steps by a second and one tick
GameTick ==
    /\ now < MaxGameTicks * (TicksPerSecond + 1)
    /\ Tick(TicksPerSecond + 1)

Start ==
    /\ Len(sessions) < MaxSessions
    /\ \E u \in Users, g \in GameRefs, mb \in StartBodies : StartSession(u, g, mb)
    /\ UNCHANGED <<files, browser, now, moodLogs, songs, playlists>>

Complete ==
    /\ \E u \in Users, sid \in SessionRefs, b \in CompleteBodies :
            CompleteSession(u, sid, b.moodAfter, b.score, b.maxScore, b.gameData)
    /\ UNCHANGED <<files, browser, now, moodLogs, songs, playlists>>

NextGame == GameTick \/ Start \/ Complete

\* request bodies of the complete route whose gameData names the keys set at start
OverrideBodies ==
    {[moodAfter |-> [mood |-> Some("calm"), intensity |-> Some(5)],
      score |-> 2, maxScore |-> Some(4),
      gameData |-> [NoGameData EXCEPT !.isFirstPlay = Some(TRUE)]],
     [moodAfter |-> [mood |-> Some("calm"), intensity |-> Some(4)],
      score |-> 0, maxScore |-> Some(0),
      gameData |-> [NoGameData EXCEPT !.isFirstPlay = Some(FALSE),
                                      !.expectedDuration = Some(600)]]}

\* the clock steps once, by a minute, the shortest estimated duration of a game
AchTick ==
    /\ now = 0
    /\ Tick(60 * TicksPerSecond)

AchStart ==
    /\ Len(sessions) < MaxAchSessions
    /\ \E u \in Users, mb \in StartBodies : StartSession(u, "g1", mb)
    /\ UNCHANGED <<files, browser, now, moodLogs, songs, playlists>>

AchComplete ==
    /\ \E u \in Users, sid \in SessionRefs, b \in CompleteBodies \cup OverrideBodies :
            CompleteSession(u, sid, b.moodAfter, b.score, b.maxScore, b.gameData)
    /\ UNCHANGED <<files, browser, now, moodLogs, songs, playlists>>

NextAchieve == AchTick \/ AchStart \/ AchComplete

-----------------------------------------------------------------------------
(* Game requests whose database operations interleave.  A handler runs from *)
(* one await to the next without interruption; between two awaits of one    *)
(* request the operations of other requests may run.  `inflight` holds the  *)
(* requests being worked on: the await each is at (`at`) and the documents  *)
(* it holds in memory (`read`, `made`).                                     *)

Request(op, u, target, body) ==
    [op |-> op, user |-> u, target |-> target, body |-> body,
     at |-> "find", sid |-> Null, read |-> Null, made |-> Null]

\* the request at position r moves on to its next await
Await(r, req) ==
    /\ inflight' = [inflight EXCEPT ![r] = req]
    /\ resp' = NoResp

\* the request at position r is answered
Answer(r, answer) ==
    /\ inflight' = [k \in 1..(Len(inflight) - 1) |->
                        IF k < r THEN inflight[k] ELSE inflight[k + 1]]
    /\ resp' = answer

\* POST /api/games/:id/start arrives
ReceiveStart(u, g, moodBefore) ==
    /\ inflight' = Append(inflight, Request("start", u, g, moodBefore))
    /\ resp' = NoResp
    /\ UNCHANGED <<games, sessions>>

\* await Game.findById(req.params.id), then Date.now() for the session id
StartFindGame(r) ==
    LET req == inflight[r] IN
    /\ req.op = "start" /\ req.at = "find"
    /\ IF ~GameAvailable(req.target)
       THEN Answer(r, [op |-> "start", status |-> 404, user |-> req.user,
                       game |-> req.target])
       ELSE Await(r, [req EXCEPT !.at = "count", !.read = Some(games[req.target]),
                                  !.sid = Some(<<req.user, req.target, now>>)])
    /\ UNCHANGED <<games, sessions>>

\* await GameSession.countDocuments({ user, game }), then new GameSession({...})
StartCount(r) ==
    LET req == inflight[r] IN
    /\ req.op = "start" /\ req.at = "count"
    /\ Await(r, [req EXCEPT !.at = "save",
                 !.made = Some(newGameSession(req.user, req.target, Val(req.sid),
                                              req.body, Val(req.read),
                                              CountSessions(req.user, req.target),
                                              now))])
    /\ UNCHANGED <<games, sessions>>

\* await gameSession.save(), then game.incrementPlayCount() adds one to the
\* playCount of the game document read at the start
StartSaveSession(r) ==
    LET req == inflight[r] IN
    /\ req.op = "start" /\ req.at = "save"
    /\ IF \E i \in DOMAIN sessions : sessions[i].sessionId = Val(req.sid)
       THEN /\ Answer(r, [op |-> "start", status |-> 500, user |-> req.user,
                          game |-> req.target])
            /\ UNCHANGED sessions
       ELSE /\ sessions' = Append(sessions, Val(req.made))
            /\ Await(r, [req EXCEPT !.at = "increment",
                                    !.read = Some([Val(req.read) EXCEPT
                                                      !.playCount = @ + 1])])
    /\ UNCHANGED games

\* await this.save() of incrementPlayCount: the modified path playCount is set
\* to the value the request computed
StartSaveGame(r) ==
    LET req == inflight[r] IN
    /\ req.op = "start" /\ req.at = "increment"
    /\ games' = [games EXCEPT ![req.target].playCount = Val(req.read).playCount]
    /\ Answer(r, [op |-> "start", status |-> 201, user |-> req.user,
                  game |-> req.target])
    /\ UNCHANGED sessions

\* PUT /api/games/sessions/:sessionId/complete arrives
ReceiveComplete(u, sid, body) ==
    /\ inflight' = Append(inflight, Request("complete", u, sid, body))
    /\ resp' = NoResp
    /\ UNCHANGED <<games, sessions>>

\* await GameSession.findOne({ sessionId, user }), the checks, and completeSession
\* up to its save
CompleteFind(r) ==
    LET req == inflight[r]
        found == FindSession(req.target, req.user)
        answer(status) == [op |-> "complete", status |-> status, user |-> req.user,
                           sessionId |-> req.target]
    IN
    /\ req.op = "complete" /\ req.at = "find"
    /\ IF found = {}
       THEN Answer(r, answer(404))
       ELSE LET i == CHOOSE j \in found : TRUE
                maxScore == IF IsNull(req.body.maxScore) THEN req.body.score
                            ELSE Val(req.body.maxScore)
            IN IF AlreadyCompleted(sessions[i].completed)
               THEN Answer(r, answer(400))
               ELSE Await(r, [req EXCEPT !.at = "save", !.read = Some(i),
                                !.made = Some(completeSession(
                                            [sessions[i] EXCEPT !.maxScore = maxScore],
                                            req.body.moodAfter, req.body.score,
                                            req.body.gameData, now))])
    /\ UNCHANGED <<games, sessions>>

\* await this.save() of completeSession: the paths the request modified are set
CompleteSave(r) ==
    LET req == inflight[r]
        i == Val(req.read)
        saved == Val(req.made)
    IN
    /\ req.op = "complete" /\ req.at = "save"
    /\ sessions' = [sessions EXCEPT ![i].maxScore = saved.maxScore,
                                    ![i].moodAfter = saved.moodAfter,
                                    ![i].score = saved.score,
                                    ![i].completed = saved.completed,
                                    ![i].completedAt = saved.completedAt,
                                    ![i].duration = saved.duration,
                                    ![i].gameData = saved.gameData,
                                    ![i].completionPercentage = saved.completionPercentage,
                                    ![i].achievements = saved.achievements]
    /\ Answer(r, [op |-> "complete", status |-> 200, user |-> req.user,
                  sessionId |-> req.target,
                  moodImprovement |-> Val(req.body.moodAfter.intensity)
                                      - Val(saved.moodBefore.intensity),
                  achievements |-> saved.achievements,
                  duration |-> saved.duration])
    /\ UNCHANGED games

idle == <<files, tap, music, auth, breath, now, moodLogs, songs, playlists>>

RaceTick ==
    /\ now < MaxRaceTicks * TicksPerSecond
    /\ now' = now + TicksPerSecond
    /\ resp' = NoResp
    /\ UNCHANGED <<games, sessions, moodLogs, songs, playlists, files, inflight,
                   tap, music, auth, breath>>

RaceReceiveStart ==
    /\ Len(inflight) < MaxInflight
    /\ Len(sessions) + Cardinality({r \in DOMAIN inflight : inflight[r].op = "start"})
         < MaxRaceSessions
    /\ \E u \in Users, g \in {"g1", "g2"} :
            ReceiveStart(u, g, [mood |-> Some("sad"), intensity |-> Some(3)])
    /\ UNCHANGED idle

RaceReceiveComplete ==
    /\ Len(inflight) < MaxInflight
    /\ \E sid \in SessionRefs, b \in CompleteBodies :
            ReceiveComplete(sid[1], sid, b)
    /\ UNCHANGED idle

RaceStart ==
    /\ \E r \in DOMAIN inflight :
            StartFindGame(r) \/ StartCount(r) \/ StartSaveSession(r) \/ StartSaveGame(r)
    /\ UNCHANGED idle

RaceComplete ==
    /\ \E r \in DOMAIN inflight : CompleteFind(r) \/ CompleteSave(r)
    /\ UNCHANGED idle

NextRace ==
    RaceTick \/ RaceReceiveStart \/ RaceReceiveComplete \/ RaceStart \/ RaceComplete

-----------------------------------------------------------------------------
(* Mood logs *)

MoodEnum ==
    {"happy", "sad", "energetic", "calm", "anxious", "excited", "melancholic",
     "focused", "angry", "peaceful", "romantic", "nostalgic"}

DetectionEnum == {"camera", "voice", "text", "manual", "activity", "journal"}

TimeOfDayEnum == {"morning", "afternoon", "evening", "night"}

\* new Date(t).getHours(), the clock's zero being a local midnight
getHours(t) == (t \div HourTicks) % 24

\* moodLogSchema.pre('save'): fills context.timeOfDay from the creation hour
preSaveMoodLog(doc) ==
    IF IsNull(doc.context.timeOfDay) \/ Val(doc.context.timeOfDay) = ""
    THEN LET hour == getHours(doc.createdAt) IN
         [doc EXCEPT !.context.timeOfDay =
            IF hour >= 5 /\ hour < 12 THEN Some("morning")
            ELSE IF hour >= 12 /\ hour < 17 THEN Some("afternoon")
            ELSE IF hour >= 17 /\ hour < 21 THEN Some("evening")
            ELSE Some("night")]
    ELSE doc

WeatherEnum == {"sunny", "cloudy", "rainy", "snowy", "stormy", "foggy", "unknown"}

TriggerEnum ==
    {"work", "family", "friends", "health", "money", "relationship", "achievement",
     "loss", "stress", "exercise", "music", "nature", "other"}

\* the greatest length of notes
NotesMax == 500

\* String.prototype.trim on a text held as the sequence of its characters
RECURSIVE TrimLeft(_)
TrimLeft(text) ==
    IF text # <<>> /\ Head(text) = " " THEN TrimLeft(Tail(text)) ELSE text

RECURSIVE TrimRight(_)
TrimRight(text) ==
    IF text # <<>> /\ text[Len(text)] = " "
    THEN TrimRight(SubSeq(text, 1, Len(text) - 1))
    ELSE text

Trim(text) == TrimLeft(TrimRight(text))

\* the schema's validators: required and enum paths, min and max; confidence is
\* held in hundredths
validateMoodLog(doc) ==
    /\ doc.mood \in MoodEnum
    /\ doc.intensity >= 1 /\ doc.intensity <= 10
    /\ doc.detectionMethod \in DetectionEnum
    /\ doc.confidence >= 0 /\ doc.confidence <= 100
    /\ IsNull(doc.notes) \/ Len(Val(doc.notes)) <= NotesMax
    /\ doc.triggers \subseteq TriggerEnum
    /\ doc.context.weather \in WeatherEnum
    /\ ~IsNull(doc.context.timeOfDay)
    /\ Val(doc.context.timeOfDay) \in TimeOfDayEnum

\* document.save(): mongoose validates in a pre('save') hook of its own that is
\* put before the schema's hooks, so the schema's hook sees validated documents only
saveMoodLog(doc) ==
    IF validateMoodLog(doc) THEN Some(preSaveMoodLog(doc)) ELSE Null

\* notes: optional, trimmed, at most NotesMax characters
NotesError(b) ==
    IF ~IsNull(b.notes) /\ Len(Trim(Val(b.notes))) > NotesMax THEN <<"notes">> ELSE <<>>

firstErrorOnlyBug(b) ==
    IF b.mood \notin MoodEnum THEN <<"mood">>
    ELSE IF b.intensity \notin 1..10 THEN <<"intensity">>
    ELSE IF b.detectionMethod \notin DetectionEnum THEN <<"detectionMethod">>
    ELSE IF ~IsNull(b.confidence) /\ Val(b.confidence) \notin 0..100
    THEN <<"confidence">>
    ELSE NotesError(b)

\* validationResult(req).array() after the chains of POST /api/moods: the fields
\* found invalid, in the order of the chains
validationErrors(b) ==
    (IF b.mood \notin MoodEnum THEN <<"mood">> ELSE <<>>)
    \o (IF b.intensity \notin 1..10 THEN <<"intensity">> ELSE <<>>)
    \o (IF b.detectionMethod \notin DetectionEnum THEN <<"detectionMethod">> ELSE <<>>)
    \o (IF ~IsNull(b.confidence) /\ Val(b.confidence) \notin 0..100
        THEN <<"confidence">> ELSE <<>>)
    \o NotesError(b)

\* errors.isEmpty()
MoodBodyValid(b) == validationErrors(b) = <<>>

\* MoodLog.findOne({ user }).sort({ createdAt: -1 }): the documents the store may
\* return, any of those with the greatest createdAt
LatestMoodLogs(u) ==
    {i \in DOMAIN moodLogs :
        /\ moodLogs[i].user = u
        /\ \A j \in DOMAIN moodLogs :
              moodLogs[j].user = u => moodLogs[j].createdAt <= moodLogs[i].createdAt}

\* the answer of POST /api/moods
LogMoodResp(status, u, b, errors, log) ==
    [op |-> "logMood", status |-> status, user |-> u, timeOfDay |-> b.timeOfDay,
     body |-> b, errors |-> errors, log |-> log]

\* POST /api/moods
LogMood(u, b) ==
    IF ~MoodBodyValid(b)
    THEN /\ resp' = LogMoodResp(400, u, b, validationErrors(b), 0)
         /\ UNCHANGED moodLogs
    ELSE \E prev \in (IF LatestMoodLogs(u) = {} THEN {0} ELSE LatestMoodLogs(u)) :
         LET doc == [user |-> u, mood |-> b.mood, intensity |-> b.intensity,
                     detectionMethod |-> b.detectionMethod,
                     confidence |-> IF IsNull(b.confidence) THEN 100
                                    ELSE Val(b.confidence),
                     notes |-> IF IsNull(b.notes) THEN Null ELSE Some(Trim(Val(b.notes))),
                     context |-> [weather |-> "unknown", timeOfDay |-> b.timeOfDay],
                     triggers |-> IF IsNull(b.triggers) THEN {} ELSE Val(b.triggers),
                     previousMood |->
                        IF prev = 0 THEN Null
                        ELSE Some([mood |-> moodLogs[prev].mood,
                                   intensity |-> moodLogs[prev].intensity,
                                   timestamp |-> moodLogs[prev].createdAt]),
                     sessionId |-> b.sessionId,
                     createdAt |-> now]
             saved == saveMoodLog(doc)
         IN IF IsNull(saved)
            THEN \* save rejects with a ValidationError, caught by the route
                 /\ resp' = LogMoodResp(500, u, b, <<>>, 0)
                 /\ UNCHANGED moodLogs
            ELSE /\ moodLogs' = Append(moodLogs, Val(saved))
                 /\ resp' = LogMoodResp(201, u, b, <<>>, Len(moodLogs) + 1)

NoMoodBody ==
    [mood |-> "happy", intensity |-> 8, detectionMethod |-> "text", timeOfDay |-> Null,
     confidence |-> Null, notes |-> Null, triggers |-> Null, sessionId |-> Null]

\* request bodies of POST /api/moods
MoodBodies ==
    {NoMoodBody,
     [NoMoodBody EXCEPT !.timeOfDay = Some("morning")],
     [NoMoodBody EXCEPT !.mood = "sad", !.intensity = 3, !.detectionMethod = "camera",
                        !.timeOfDay = Some("night")],
     [NoMoodBody EXCEPT !.mood = "sad", !.intensity = 11, !.detectionMethod = "camera",
                        !.timeOfDay = Some("night")]}

\* a text of n characters
Chars(n) == [i \in 1..n |-> "x"]

\* request bodies at and beyond the limits of the validators
EdgeMoodBodies ==
    {[NoMoodBody EXCEPT !.timeOfDay = Some("evening"), !.mood = "sleepy"],
     [NoMoodBody EXCEPT !.timeOfDay = Some("evening"), !.intensity = 0,
                        !.detectionMethod = "guess", !.confidence = Some(150),
                        !.notes = Some(Chars(NotesMax + 1))],
     [NoMoodBody EXCEPT !.timeOfDay = Some("evening"), !.confidence = Some(0 - 1)],
     [NoMoodBody EXCEPT !.timeOfDay = Some("evening"),
                        !.notes = Some(<<" ">> \o Chars(NotesMax + 1))],
     [NoMoodBody EXCEPT !.timeOfDay = Some("evening"), !.confidence = Some(0),
                        !.notes = Some(<<" ">> \o Chars(NotesMax) \o <<" ">>),
                        !.triggers = Some({"work"}), !.sessionId = Some("s1")]}

\* the clock steps between the hours 0, 5, 12, 17, 21 that bound the bands
MoodTick ==
    \E d \in {5 * HourTicks, 7 * HourTicks} :
        /\ now + d <= MaxMoodHours * HourTicks
        /\ Tick(d)

PostMood ==
    /\ Len(moodLogs) < MaxLogs
    /\ \E u \in Users, b \in MoodBodies : LogMood(u, b)
    /\ UNCHANGED <<files, browser, now, games, sessions, songs, playlists>>

NextMood == MoodTick \/ PostMood

PostEdgeMood ==
    /\ Len(moodLogs) < MaxEdgeLogs
    /\ \E u \in Users, b \in MoodBodies \cup EdgeMoodBodies : LogMood(u, b)
    /\ UNCHANGED <<files, browser, now, games, sessions, songs, playlists>>

NextEdgeMood == PostEdgeMood

-----------------------------------------------------------------------------
(* Mood logs by id *)

\* MoodLog.findById(id) finds a document
MoodLogExists(id) == id \in DOMAIN moodLogs /\ moodLogs[id].user # NoOne

\* the answer of a route that names a mood log
MoodIdResp(op, status, u, id, b) ==
    [op |-> op, status |-> status, user |-> u, log |-> id, body |-> b]

NoMoodUpdate ==
    [notes |-> Null, context |-> Null, triggers |-> Null, mood |-> Null,
     intensity |-> Null, detectionMethod |-> Null, confidence |-> Null,
     previousMood |-> Null, sessionId |-> Null, user |-> Null, createdAt |-> Null]

\* GET /api/moods/:id
GetMoodLog(u, id) ==
    /\ resp' = MoodIdResp("getMood",
                          IF ~MoodLogExists(id) THEN 404
                          ELSE IF moodLogs[id].user # u THEN 403 ELSE 200,
                          u, id, NoMoodUpdate)
    /\ UNCHANGED moodLogs

moodAllowedUpdatesBug ==
    {"notes", "context", "triggers", "mood", "intensity", "detectionMethod",
     "confidence", "previousMood", "sessionId", "user", "createdAt"}

moodAllowedUpdates == {"notes", "context", "triggers"}

\* { ...moodLog.context, ...req.body.context }
SpreadContext(old, given) ==
    [weather |-> IF IsNull(given.weather) THEN old.weather ELSE Val(given.weather),
     timeOfDay |-> IF IsNull(given.timeOfDay) THEN old.timeOfDay ELSE given.timeOfDay]

\* the value of a field after Object.assign(moodLog, updates)
MoodUpdated(field, b, old) ==
    IF field \in moodAllowedUpdates /\ ~IsNull(b[field])
    THEN IF field = "context" THEN SpreadContext(old, Val(b.context))
         ELSE IF field = "notes" THEN Some(Trim(Val(b.notes)))
         ELSE IF field \in {"previousMood", "sessionId"} THEN b[field]
         ELSE Val(b[field])
    ELSE old

assignMoodUpdates(doc, b) ==
    [doc EXCEPT !.notes = MoodUpdated("notes", b, @),
                !.context = MoodUpdated("context", b, @),
                !.triggers = MoodUpdated("triggers", b, @),
                !.mood = MoodUpdated("mood", b, @),
                !.intensity = MoodUpdated("intensity", b, @),
                !.detectionMethod = MoodUpdated("detectionMethod", b, @),
                !.confidence = MoodUpdated("confidence", b, @),
                !.previousMood = MoodUpdated("previousMood", b, @),
                !.sessionId = MoodUpdated("sessionId", b, @),
                !.user = MoodUpdated("user", b, @),
                !.createdAt = MoodUpdated("createdAt", b, @)]

\* PUT /api/moods/:id
UpdateMoodLog(u, id, b) ==
    IF NotesError(b) # <<>>
    THEN /\ resp' = MoodIdResp("updateMood", 400, u, id, b)
         /\ UNCHANGED moodLogs
    ELSE IF ~MoodLogExists(id)
    THEN /\ resp' = MoodIdResp("updateMood", 404, u, id, b)
         /\ UNCHANGED moodLogs
    ELSE IF moodLogs[id].user # u
    THEN /\ resp' = MoodIdResp("updateMood", 403, u, id, b)
         /\ UNCHANGED moodLogs
    ELSE LET saved == saveMoodLog(assignMoodUpdates(moodLogs[id], b)) IN
         IF IsNull(saved)
         THEN /\ resp' = MoodIdResp("updateMood", 500, u, id, b)
              /\ UNCHANGED moodLogs
         ELSE /\ moodLogs' = [moodLogs EXCEPT ![id] = Val(saved)]
              /\ resp' = MoodIdResp("updateMood", 200, u, id, b)

\* DELETE /api/moods/:id
DeleteMoodLog(u, id) ==
    IF ~MoodLogExists(id)
    THEN /\ resp' = MoodIdResp("deleteMood", 404, u, id, NoMoodUpdate)
         /\ UNCHANGED moodLogs
    ELSE IF moodLogs[id].user # u
    THEN /\ resp' = MoodIdResp("deleteMood", 403, u, id, NoMoodUpdate)
         /\ UNCHANGED moodLogs
    ELSE /\ moodLogs' = [moodLogs EXCEPT ![id].user = NoOne]
         /\ resp' = MoodIdResp("deleteMood", 200, u, id, NoMoodUpdate)

MoodLogRefs == 1..(Len(moodLogs) + 1)

NoContext == [weather |-> Null, timeOfDay |-> Null]

\* request bodies of PUT /api/moods/:id
MoodUpdateBodies ==
    {[NoMoodUpdate EXCEPT !.notes = Some(<<" ", "o", "k">>)],
     [NoMoodUpdate EXCEPT !.context = Some([NoContext EXCEPT !.weather = Some("sunny")]),
                          !.triggers = Some({"work"}),
                          !.mood = Some("angry"), !.intensity = Some(1),
                          !.detectionMethod = Some("manual"), !.confidence = Some(50),
                          !.previousMood = Some([mood |-> "calm", intensity |-> 5,
                                                 timestamp |-> 0]),
                          !.sessionId = Some("s2"), !.user = Some("u2"),
                          !.createdAt = Some(1)],
     [NoMoodUpdate EXCEPT !.context = Some([NoContext EXCEPT
                                               !.timeOfDay = Some("evening")]),
                          !.user = Some("u1")],
     [NoMoodUpdate EXCEPT !.triggers = Some({"weather"})],
     [NoMoodUpdate EXCEPT !.notes = Some(Chars(NotesMax + 1)),
                          !.mood = Some("angry")]}

ByIdPostMood ==
    /\ Len(moodLogs) < MaxByIdLogs
    /\ \E u \in Users, b \in MoodBodies : LogMood(u, b)
    /\ UNCHANGED <<files, browser, now, games, sessions, songs, playlists>>

GetMood ==
    /\ \E u \in Users, id \in MoodLogRefs : GetMoodLog(u, id)
    /\ UNCHANGED <<files, browser, now, games, sessions, songs, playlists>>

PutMood ==
    /\ \E u \in Users, id \in MoodLogRefs, b \in MoodUpdateBodies : UpdateMoodLog(u, id, b)
    /\ UNCHANGED <<files, browser, now, games, sessions, songs, playlists>>

DeleteMood ==
    /\ \E u \in Users, id \in MoodLogRefs : DeleteMoodLog(u, id)
    /\ UNCHANGED <<files, browser, now, games, sessions, songs, playlists>>

NextMoodById == ByIdPostMood \/ GetMood \/ PutMood \/ DeleteMood

-----------------------------------------------------------------------------
(* Rating a game *)

FeedbackMax == 500

\* the validators of POST /:id/rate: rating is required, feedback optional
RateBodyValid(b) ==
    /\ ~IsNull(b.rating) /\ Val(b.rating) \in 1..5
    /\ IsNull(b.feedback) \/ Len(Trim(Val(b.feedback))) <= FeedbackMax

\* the game document after updateRating(newRating), before it is saved
updateRating(game, newRating) ==
    LET totalRating == Plus(Times(game.averageRating, game.ratingCount), newRating)
    IN  [game EXCEPT !.ratingCount = @ + 1,
                     !.averageRating = DividedBy(totalRating, game.ratingCount + 1)]

\* the validators of the game schema on save: averageRating has min 0 and max 5
validateGame(game) == LessEq(game.averageRating, FromInt(5))

\* GameSession.find({ user, game, completed: true }): positions of the matches
CompletedSessions(u, g) ==
    {i \in DOMAIN sessions :
        sessions[i].user = u /\ sessions[i].game = g /\ sessions[i].completed}

\* sort { completedAt: -1 }: the matches no other match ranks before
LatestCompleted(u, g) ==
    {i \in CompletedSessions(u, g) :
        \A j \in CompletedSessions(u, g) :
            Val(sessions[j].completedAt) <= Val(sessions[i].completedAt)}

hasPlayedBug(u, g) ==
    \E i \in DOMAIN sessions : sessions[i].user = u /\ sessions[i].game = g

\* GameSession.findOne({ user, game, completed: true }) finds a session
hasPlayed(u, g) == CompletedSessions(u, g) # {}

\* the answer of POST /:id/rate
RateResp(status, u, g, b) ==
    [op |-> "rate", status |-> status, user |-> u, game |-> g, body |-> b]

\* POST /api/games/:id/rate
RateGame(u, g, b) ==
    IF ~RateBodyValid(b)
    THEN /\ resp' = RateResp(400, u, g, b)
         /\ UNCHANGED <<games, sessions>>
    ELSE IF g \notin DOMAIN games
    THEN /\ resp' = RateResp(404, u, g, b)
         /\ UNCHANGED <<games, sessions>>
    ELSE IF ~hasPlayed(u, g)
    THEN /\ resp' = RateResp(400, u, g, b)
         /\ UNCHANGED <<games, sessions>>
    ELSE LET rated == updateRating(games[g], Val(b.rating)) IN
         IF ~validateGame(rated)
         THEN /\ resp' = RateResp(500, u, g, b)
              /\ UNCHANGED <<games, sessions>>
         ELSE /\ games' = [games EXCEPT
                            ![g] = [rated EXCEPT !.accepted =
                                        [n |-> @.n + 1, sum |-> @.sum + Val(b.rating)]]]
              \* findOneAndUpdate({...}, { rating, feedback }, sort): an undefined
              \* feedback is dropped from the update or stored as null, by the
              \* version of mongoose
              /\ IF LatestCompleted(u, g) = {}
                 THEN UNCHANGED sessions
                 ELSE \E i \in LatestCompleted(u, g) :
                        \E fb \in IF IsNull(b.feedback)
                                  THEN {sessions[i].feedback, Null}
                                  ELSE {Some(Trim(Val(b.feedback)))} :
                            sessions' = [sessions EXCEPT ![i].rating = b.rating,
                                                         ![i].feedback = fb]
              /\ resp' = RateResp(200, u, g, b)

\* request bodies of the rate route: the ends of the scale and a rating between
\* them, ratings beyond the scale, none, and a feedback that is too long
RateBodies ==
    {[rating |-> Some(r), feedback |-> Null] : r \in {0, 1, 4, 6}}
    \cup {[rating |-> Some(5), feedback |-> Some(<<" ", "o", "k">>)],
          [rating |-> Null, feedback |-> Null],
          [rating |-> Some(5), feedback |-> Some(Chars(FeedbackMax + 1))]}

RateStart ==
    /\ Len(sessions) < MaxRateSessions
    /\ \E u \in Users :
            StartSession(u, "g1", [mood |-> Some("sad"), intensity |-> Some(3)])
    /\ UNCHANGED <<files, browser, now, moodLogs, songs, playlists>>

RateComplete ==
    /\ \E u \in Users, sid \in SessionRefs :
            CompleteSession(u, sid, [mood |-> Some("calm"), intensity |-> Some(5)],
                            4, Null, NoGameData)
    /\ UNCHANGED <<files, browser, now, moodLogs, songs, playlists>>

Rate ==
    /\ games["g1"].ratingCount < MaxRatings
    /\ \E u \in Users, g \in GameRefs, b \in RateBodies : RateGame(u, g, b)
    /\ UNCHANGED <<files, browser, now, moodLogs, songs, playlists>>

NextRate == RateStart \/ RateComplete \/ Rate

\* the requests of the rate route that pass its validators, for the stored game
\* that is active
RateAccepted ==
    /\ games["g1"].ratingCount < MaxAverageRatings
    /\ \E u \in Users, b \in {x \in RateBodies : RateBodyValid(x)} : RateGame(u, "g1", b)
    /\ UNCHANGED <<files, browser, now, moodLogs, songs, playlists>>

NextAverage == RateStart \/ RateComplete \/ RateAccepted

-----------------------------------------------------------------------------
(* Songs *)

GenreEnum ==
    {"pop", "rock", "jazz", "classical", "electronic", "hip-hop", "country", "folk",
     "blues", "reggae", "ambient", "indie", "alternative", "metal", "punk", "r&b",
     "soul", "funk", "disco", "house", "techno", "trance", "dubstep", "other"}

SongMoodEnum ==
    {"happy", "sad", "energetic", "calm", "anxious", "excited", "melancholic",
     "focused", "romantic", "angry", "peaceful", "uplifting", "nostalgic",
     "mysterious", "dramatic"}

TempoEnum == {"slow", "medium", "fast"}

\* new Song({...}) of the upload route with the schema's defaults
songDoc(u, b, t) ==
    [uploadedBy |-> u, genre |-> b.genre, moodTags |-> b.moodTags,
     tempo |-> IF IsNull(b.tempo) THEN "medium" ELSE Val(b.tempo),
     energy |-> IF IsNull(b.energy) THEN 5 ELSE Val(b.energy),
     valence |-> IF IsNull(b.valence) THEN 5 ELSE Val(b.valence),
     isPublic |-> IF IsNull(b.isPublic) THEN TRUE ELSE Val(b.isPublic),
     playCount |-> 0, likes |-> 0, createdAt |-> t]

\* the song schema's validators
validateSong(doc) ==
    /\ doc.genre \in GenreEnum
    /\ doc.moodTags \subseteq SongMoodEnum
    /\ doc.tempo \in TempoEnum
    /\ doc.energy >= 1 /\ doc.energy <= 10
    /\ doc.valence >= 1 /\ doc.valence <= 10

\* multer's filename: the field name, Date.now() and a random number
uploadPath(t, r) == <<t, r>>

unlinkSkippedBug(fs, path) == fs

\* fs.unlinkSync(path)
unlinkSync(fs, path) == fs \ {path}

\* POST /api/songs/upload.  `f` is null for a request without an audio file and
\* otherwise holds the random part of the name multer gives the file, which
\* multer has written to the upload directory before the handler runs.
UploadSong(u, b, f) ==
    LET path == uploadPath(now, Val(f))
        written == IF IsNull(f) THEN files ELSE files \cup {path}
        removed == IF IsNull(f) THEN written ELSE unlinkSync(written, path)
        answer(status) == [op |-> "upload", status |-> status, user |-> u,
                           file |-> IF IsNull(f) THEN Null ELSE Some(path)]
    IN  IF b.genre \notin GenreEnum
        THEN /\ resp' = answer(400)
             /\ files' = removed
             /\ UNCHANGED songs
        ELSE IF IsNull(f)
        THEN /\ resp' = answer(400)
             /\ UNCHANGED <<songs, files>>
        ELSE IF ~validateSong(songDoc(u, b, now))
        THEN /\ resp' = answer(500)
             /\ files' = removed
             /\ UNCHANGED songs
        ELSE /\ songs' = Append(songs, songDoc(u, b, now) @@ [filePath |-> path])
             /\ files' = written
             /\ resp' = answer(201)

\* POST /api/songs/:id/play
PlaySong(u, id) ==
    IF id \notin DOMAIN songs
    THEN /\ resp' = [op |-> "play", status |-> 404, user |-> u]
         /\ UNCHANGED songs
    ELSE /\ songs' = [songs EXCEPT ![id].playCount = @ + 1]
         /\ resp' = [op |-> "play", status |-> 200, user |-> u]

visibleToAllBug(u, id) == TRUE

\* { $or: [{ isPublic: true }, { uploadedBy: req.user._id }] }
Visible(u, id) == songs[id].isPublic \/ songs[id].uploadedBy = u

\* a.playCount, a.likes before b.playCount, b.likes under sort({ playCount: -1, likes: -1 })
RanksBefore(a, b) ==
    \/ songs[a].playCount > songs[b].playCount
    \/ songs[a].playCount = songs[b].playCount /\ songs[a].likes > songs[b].likes

\* ... under sort({ playCount: -1, likes: -1, createdAt: -1 })
RanksBeforeByDate(a, b) ==
    \/ RanksBefore(a, b)
    \/ /\ ~RanksBefore(b, a)
       /\ songs[a].createdAt > songs[b].createdAt

RECURSIVE firstKUnrankedBug(_, _, _)
firstKUnrankedBug(S, k, byDate) ==
    IF k = 0 \/ S = {}
    THEN {<<>>}
    ELSE UNION {{<<a>> \o rest : rest \in firstKUnrankedBug(S \ {a}, k - 1, byDate)} :
                a \in S}

\* .sort(keys).limit(k) over the documents S: every list the store may return, the
\* order among documents with equal sort keys being the store's to choose
RECURSIVE TopLists(_, _, _)
TopLists(S, k, byDate) ==
    IF k = 0 \/ S = {}
    THEN {<<>>}
    ELSE UNION {{<<a>> \o rest : rest \in TopLists(S \ {a}, k - 1, byDate)} :
                a \in {x \in S : \A y \in S :
                          IF byDate THEN ~RanksBeforeByDate(y, x) ELSE ~RanksBefore(y, x)}}

Range(f) == {f[i] : i \in DOMAIN f}

bandLowBug(n) == IF n - 3 > 1 THEN n - 3 ELSE 1

\* the band around a requested energy or valence
BandLow(n) == IF n - 2 > 1 THEN n - 2 ELSE 1

BandHigh(n) == IF n + 2 < 10 THEN n + 2 ELSE 10

\* { $gte: Math.max(1, v - 2), $lte: Math.min(10, v + 2) } when the query holds v
InBand(x, want) ==
    IsNull(want) \/ (x >= BandLow(Val(want)) /\ x <= BandHigh(Val(want)))

\* the validators of GET /api/songs/recommendations
RecommendQueryValid(q) ==
    /\ IsNull(q.mood) \/ Val(q.mood) \in SongMoodEnum
    /\ IsNull(q.energy) \/ Val(q.energy) \in 1..10
    /\ IsNull(q.valence) \/ Val(q.valence) \in 1..10
    /\ IsNull(q.limit) \/ Val(q.limit) \in 1..50

\* the documents the recommendation filter matches
RecommendMatches(u, q) ==
    {id \in DOMAIN songs :
        /\ Visible(u, id)
        /\ IsNull(q.mood) \/ Val(q.mood) \in songs[id].moodTags
        /\ InBand(songs[id].energy, q.energy)
        /\ InBand(songs[id].valence, q.valence)}

\* GET /api/songs/recommendations
RecommendSongs(u, q) ==
    IF ~RecommendQueryValid(q)
    THEN resp' = [op |-> "recommend", status |-> 400, user |-> u, query |-> q,
                  songs |-> <<>>]
    ELSE \E list \in TopLists(RecommendMatches(u, q),
                              IF IsNull(q.limit) THEN 20 ELSE Val(q.limit), TRUE) :
            resp' = [op |-> "recommend", status |-> 200, user |-> u, query |-> q,
                     songs |-> list]

-----------------------------------------------------------------------------
(* Playlists *)

AutoGenMoodEnum ==
    {"happy", "sad", "energetic", "calm", "anxious", "excited", "melancholic", "focused"}

\* s.charAt(0).toUpperCase() + s.slice(1) on the words the requests use
Capitalize(w) ==
    CASE w = "happy" -> "Happy"
      [] w = "sad" -> "Sad"
      [] w = "slow" -> "Slow"
      [] w = "medium" -> "Medium"
      [] w = "fast" -> "Fast"
      [] w = "pop" -> "Pop"
      [] w = "rock" -> "Rock"
      [] w = "jazz" -> "Jazz"
      [] OTHER -> w

\* the name the generator gives the playlist
playlistName(q) ==
    (IF IsNull(q.mood) THEN "Auto-Generated Playlist"
     ELSE Capitalize(Val(q.mood)) \o " Mix")
    \o (IF IsNull(q.tempo) THEN "" ELSE " (" \o Capitalize(Val(q.tempo)) \o " Tempo)")
    \o (IF IsNull(q.genre) THEN "" ELSE " - " \o Capitalize(Val(q.genre)))

\* what the playlist schema adds to a new document
PlaylistDefaults(t) == [playCount |-> 0, followers |-> {}, createdAt |-> t]

\* the validators of GET /api/playlists/auto-generate
AutoGenQueryValid(q) ==
    /\ IsNull(q.mood) \/ Val(q.mood) \in AutoGenMoodEnum
    /\ IsNull(q.tempo) \/ Val(q.tempo) \in TempoEnum
    /\ IsNull(q.genre) \/ Val(q.genre) \in GenreEnum
    /\ IsNull(q.limit) \/ Val(q.limit) \in 5..50

\* the documents songFilter matches
AutoGenMatches(u, q) ==
    {id \in DOMAIN songs :
        /\ Visible(u, id)
        /\ IsNull(q.mood) \/ Val(q.mood) \in songs[id].moodTags
        /\ IsNull(q.tempo) \/ Val(q.tempo) = songs[id].tempo
        /\ IsNull(q.genre) \/ Val(q.genre) = songs[id].genre}

noneFoundBug(list) == FALSE

\* songs.length === 0
NoneFound(list) == list = <<>>

\* GET /api/playlists/auto-generate
AutoGenerate(u, q) ==
    IF ~AutoGenQueryValid(q)
    THEN /\ resp' = [op |-> "autoGenerate", status |-> 400, user |-> u, query |-> q,
                     playlist |-> 0]
         /\ UNCHANGED playlists
    ELSE \E list \in TopLists(AutoGenMatches(u, q),
                              IF IsNull(q.limit) THEN 20 ELSE Val(q.limit), FALSE) :
         IF NoneFound(list)
         THEN /\ resp' = [op |-> "autoGenerate", status |-> 404, user |-> u,
                          query |-> q, playlist |-> 0]
              /\ UNCHANGED playlists
         ELSE /\ playlists' =
                    Append(playlists,
                           [name |-> playlistName(q), owner |-> u, songs |-> list,
                            isAutoGenerated |-> TRUE,
                            generatedFor |-> [mood |-> q.mood, tempo |-> q.tempo,
                                              genre |-> q.genre],
                            isPublic |-> FALSE,
                            playCount |-> PlaylistDefaults(now).playCount,
                            followers |-> PlaylistDefaults(now).followers,
                            createdAt |-> PlaylistDefaults(now).createdAt])
              /\ resp' = [op |-> "autoGenerate", status |-> 200, user |-> u,
                          query |-> q, playlist |-> Len(playlists) + 1]

-----------------------------------------------------------------------------
(* Requests of the song and playlist routes *)

NoSongBody ==
    [genre |-> "other", moodTags |-> {}, tempo |-> Null, energy |-> Null,
     valence |-> Null, isPublic |-> Null]

\* bodies of POST /api/songs/upload
SongBodies ==
    {[NoSongBody EXCEPT !.genre = "pop", !.moodTags = {"happy"},
                        !.energy = Some(6), !.valence = Some(8)],
     [NoSongBody EXCEPT !.genre = "rock", !.moodTags = {"happy", "energetic"},
                        !.tempo = Some("fast"), !.energy = Some(10),
                        !.isPublic = Some(FALSE)],
     [NoSongBody EXCEPT !.moodTags = {"sad"}, !.valence = Some(3)],
     [NoSongBody EXCEPT !.genre = "pop", !.energy = Some(1), !.valence = Some(10),
                        !.isPublic = Some(FALSE)],
     [NoSongBody EXCEPT !.energy = Some(11)]}

NoRecommendQuery == [mood |-> Null, energy |-> Null, valence |-> Null, limit |-> Null]

\* queries of GET /api/songs/recommendations
RecommendQueries ==
    {[NoRecommendQuery EXCEPT !.energy = Some(8)],
     [NoRecommendQuery EXCEPT !.energy = Some(3), !.mood = Some("sad")],
     [NoRecommendQuery EXCEPT !.energy = Some(1), !.limit = Some(1)],
     [NoRecommendQuery EXCEPT !.valence = Some(10)],
     [NoRecommendQuery EXCEPT !.energy = Some(8), !.valence = Some(1)],
     [NoRecommendQuery EXCEPT !.energy = Some(11)]}

Upload ==
    /\ Len(songs) < MaxSongs
    /\ \E u \in Users, b \in SongBodies : UploadSong(u, b, Some(0))
    /\ UNCHANGED <<browser, now, games, sessions, moodLogs, playlists>>

Recommend ==
    /\ \E u \in Users, q \in RecommendQueries : RecommendSongs(u, q)
    /\ UNCHANGED <<files, browser, now, games, sessions, moodLogs, songs, playlists>>

NextRecommend == Upload \/ Recommend

\* a stored song after k play requests
Played(doc, k) == [doc EXCEPT !.playCount = k]

\* songs the catalogue of the generator run is made of: documents the upload route
\* stores, after zero or more play requests
CatalogSongs ==
    <<songDoc("u1", [NoSongBody EXCEPT !.genre = "pop", !.moodTags = {"happy"},
                                       !.tempo = Some("fast")], 0),
      Played(songDoc("u1", [NoSongBody EXCEPT !.genre = "pop", !.moodTags = {"happy"},
                                              !.tempo = Some("fast")], 0), 2),
      Played(songDoc("u2", [NoSongBody EXCEPT !.genre = "pop",
                                              !.moodTags = {"happy", "energetic"},
                                              !.tempo = Some("fast"),
                                              !.isPublic = Some(FALSE)], 0), 1),
      songDoc("u1", [NoSongBody EXCEPT !.genre = "rock", !.moodTags = {"sad"},
                                       !.isPublic = Some(FALSE)], 0)>>

\* n copies of CatalogSongs[k], then the catalogue with c[k] copies of each: the
\* generator does not read the order of the collection
RECURSIVE Catalog(_, _)
Catalog(c, k) ==
    IF k = 0 THEN <<>>
    ELSE Catalog(c, k - 1) \o [i \in 1..c[k] |-> CatalogSongs[k]]

RECURSIVE SumTo(_, _)
SumTo(c, k) == IF k = 0 THEN 0 ELSE c[k] + SumTo(c, k - 1)

Catalogs ==
    {Catalog(c, Len(CatalogSongs)) :
        c \in {d \in [DOMAIN CatalogSongs -> 0..MaxCatalog] :
                  SumTo(d, Len(CatalogSongs)) <= MaxCatalog}}

NoAutoGenQuery == [mood |-> Null, tempo |-> Null, genre |-> Null, limit |-> Null]

\* queries of GET /api/playlists/auto-generate
AutoGenQueries ==
    {NoAutoGenQuery,
     [NoAutoGenQuery EXCEPT !.mood = Some("happy"), !.limit = Some(5)],
     [NoAutoGenQuery EXCEPT !.mood = Some("happy"), !.tempo = Some("fast"),
                            !.genre = Some("pop"), !.limit = Some(5)],
     [NoAutoGenQuery EXCEPT !.mood = Some("sad"), !.limit = Some(5)],
     [NoAutoGenQuery EXCEPT !.genre = Some("jazz")],
     [NoAutoGenQuery EXCEPT !.limit = Some(3)]}

\* the generator applied to the catalogue drawn
Generate ==
    /\ playlists = <<>>
    /\ \E u \in Users, q \in AutoGenQueries : AutoGenerate(u, q)
    /\ UNCHANGED <<files, browser, now, games, sessions, moodLogs, songs>>

NextAutoGen == Generate

-----------------------------------------------------------------------------
(* Playlists created by hand, playback logs *)

\* POST /api/playlists
CreatePlaylist(u, b) ==
    IF b.name = ""
    THEN /\ resp' = [op |-> "createPlaylist", status |-> 400, user |-> u]
         /\ UNCHANGED playlists
    ELSE /\ playlists' =
               Append(playlists,
                      [name |-> b.name, owner |-> u, songs |-> <<>>,
                       isAutoGenerated |-> FALSE,
                       generatedFor |-> [mood |-> Null, tempo |-> Null, genre |-> Null],
                       isPublic |-> IF IsNull(b.isPublic) THEN FALSE ELSE Val(b.isPublic),
                       playCount |-> PlaylistDefaults(now).playCount,
                       followers |-> PlaylistDefaults(now).followers,
                       createdAt |-> PlaylistDefaults(now).createdAt])
         /\ resp' = [op |-> "createPlaylist", status |-> 201, user |-> u]

PlaylistBodies == {[name |-> "Morning", isPublic |-> Null], [name |-> "", isPublic |-> Null]}

\* the PlaybackLog collection: no route creates a playback log
playbackLogs == <<>>

-----------------------------------------------------------------------------
(* Playlists by id *)

\* Playlist.findById(id) finds a document
PlaylistExists(id) == id \in DOMAIN playlists /\ playlists[id].owner # NoOne

\* the answer of a playlist route that names a playlist
PlaylistResp(op, status, u, id) ==
    [op |-> op, status |-> status, user |-> u, playlist |-> id]

\* the answer of a route that names a playlist and a song
PlaylistSongResp(op, status, u, id, songId) ==
    [op |-> op, status |-> status, user |-> u, playlist |-> id, song |-> songId]

\* GET /api/playlists/:id
GetPlaylist(u, id) ==
    /\ resp' = PlaylistResp("getPlaylist",
                            IF ~PlaylistExists(id) THEN 404
                            ELSE IF ~playlists[id].isPublic /\ playlists[id].owner # u
                                 THEN 403 ELSE 200,
                            u, id)
    /\ UNCHANGED playlists

allowedUpdatesBug ==
    {"name", "description", "isPublic", "tags", "coverImage", "isAutoGenerated",
     "generatedFor"}

allowedUpdates == {"name", "description", "isPublic", "tags", "coverImage"}

\* a field of the body is copied when it is allowed and defined
Updated(field, b, old) ==
    IF field \in allowedUpdates /\ ~IsNull(b[field]) THEN Val(b[field]) ELSE old

\* Object.assign(playlist, updates)
assignUpdates(pl, b) ==
    [pl EXCEPT !.name = Updated("name", b, @),
               !.isPublic = Updated("isPublic", b, @),
               !.isAutoGenerated = Updated("isAutoGenerated", b, @),
               !.generatedFor = Updated("generatedFor", b, @)]

\* PUT /api/playlists/:id
UpdatePlaylist(u, id, b) ==
    IF ~IsNull(b.name) /\ Val(b.name) = ""
    THEN /\ resp' = PlaylistResp("updatePlaylist", 400, u, id)
         /\ UNCHANGED playlists
    ELSE IF ~PlaylistExists(id)
    THEN /\ resp' = PlaylistResp("updatePlaylist", 404, u, id)
         /\ UNCHANGED playlists
    ELSE IF playlists[id].owner # u
    THEN /\ resp' = PlaylistResp("updatePlaylist", 403, u, id)
         /\ UNCHANGED playlists
    ELSE /\ playlists' = [playlists EXCEPT ![id] = assignUpdates(@, b)]
         /\ resp' = PlaylistResp("updatePlaylist", 200, u, id)

\* DELETE /api/playlists/:id
DeletePlaylist(u, id) ==
    IF ~PlaylistExists(id)
    THEN /\ resp' = PlaylistResp("deletePlaylist", 404, u, id)
         /\ UNCHANGED playlists
    ELSE IF playlists[id].owner # u
    THEN /\ resp' = PlaylistResp("deletePlaylist", 403, u, id)
         /\ UNCHANGED playlists
    ELSE /\ playlists' = [playlists EXCEPT ![id].owner = NoOne,
                                           ![id].isPublic = FALSE,
                                           ![id].songs = <<>>,
                                           ![id].followers = {}]
         /\ resp' = PlaylistResp("deletePlaylist", 200, u, id)

addSongBug(list, songId) == Append(list, songId)

\* playlist.addSong(songId): a song already in the list is not added again
addSong(list, songId) ==
    IF songId \in Range(list) THEN list ELSE Append(list, songId)

\* playlist.removeSong(songId): the entries of the song leave the list
removeSong(list, songId) == SelectSeq(list, LAMBDA x : x # songId)

\* playlist.incrementPlayCount()
incrementPlaylistPlayCount(pl) == [pl EXCEPT !.playCount = @ + 1]

\* Song.findById(id) finds a document
SongExists(id) == id \in DOMAIN songs /\ songs[id].uploadedBy # NoOne

\* song.isPublic || song.uploadedBy equals the requester
SongAccess(u, songId) == songs[songId].isPublic \/ songs[songId].uploadedBy = u

\* POST /api/playlists/:id/songs
AddSong(u, id, songId) ==
    IF ~PlaylistExists(id)
    THEN /\ resp' = PlaylistSongResp("addSong", 404, u, id, songId)
         /\ UNCHANGED playlists
    ELSE IF playlists[id].owner # u
    THEN /\ resp' = PlaylistSongResp("addSong", 403, u, id, songId)
         /\ UNCHANGED playlists
    ELSE IF ~SongExists(songId)
    THEN /\ resp' = PlaylistSongResp("addSong", 404, u, id, songId)
         /\ UNCHANGED playlists
    ELSE IF ~SongAccess(u, songId)
    THEN /\ resp' = PlaylistSongResp("addSong", 403, u, id, songId)
         /\ UNCHANGED playlists
    ELSE /\ playlists' = [playlists EXCEPT ![id].songs = addSong(@, songId)]
         /\ resp' = PlaylistSongResp("addSong", 200, u, id, songId)

\* DELETE /api/playlists/:id/songs/:songId
RemoveSong(u, id, songId) ==
    IF ~PlaylistExists(id)
    THEN /\ resp' = PlaylistSongResp("removeSong", 404, u, id, songId)
         /\ UNCHANGED playlists
    ELSE IF playlists[id].owner # u
    THEN /\ resp' = PlaylistSongResp("removeSong", 403, u, id, songId)
         /\ UNCHANGED playlists
    ELSE /\ playlists' = [playlists EXCEPT ![id].songs = removeSong(@, songId)]
         /\ resp' = PlaylistSongResp("removeSong", 200, u, id, songId)

\* POST /api/playlists/:id/play
PlayPlaylist(u, id) ==
    IF ~PlaylistExists(id)
    THEN /\ resp' = PlaylistResp("playPlaylist", 404, u, id)
         /\ UNCHANGED playlists
    ELSE /\ playlists' = [playlists EXCEPT ![id] = incrementPlaylistPlayCount(@)]
         /\ resp' = PlaylistResp("playPlaylist", 200, u, id)

\* POST /api/playlists/:id/follow
FollowPlaylist(u, id) ==
    IF ~PlaylistExists(id)
    THEN /\ resp' = PlaylistResp("follow", 404, u, id)
         /\ UNCHANGED playlists
    ELSE IF ~playlists[id].isPublic
    THEN /\ resp' = PlaylistResp("follow", 403, u, id)
         /\ UNCHANGED playlists
    ELSE /\ playlists' =
               [playlists EXCEPT ![id].followers =
                    IF u \in @ THEN @ \ {u} ELSE @ \cup {u}]
         /\ resp' = PlaylistResp("follow", 200, u, id)

\* the ids a request may name: those ever given out and one never given out
PlaylistRefs == 1..(Len(playlists) + 1)

SongRefs == 1..(Len(songs) + 1)

NoUpdateBody ==
    [name |-> Null, isPublic |-> Null, isAutoGenerated |-> Null, generatedFor |-> Null]

UpdateBodies ==
    {[NoUpdateBody EXCEPT !.name = Some("Evening")],
     [NoUpdateBody EXCEPT !.isPublic = Some(TRUE), !.isAutoGenerated = Some(FALSE),
                          !.generatedFor = Some([mood |-> Some("sad"), tempo |-> Null,
                                                 genre |-> Null])],
     [NoUpdateBody EXCEPT !.name = Some("")]}

\* the songs stored when the playlist run starts
PlaylistRunSongs == <<CatalogSongs[1], CatalogSongs[3]>>

\* the playlist run follows one playlist from the request that stores it
PlCreate ==
    /\ playlists = <<>>
    /\ \E u \in Users, b \in PlaylistBodies : CreatePlaylist(u, b)
    /\ UNCHANGED <<files, browser, now, games, sessions, moodLogs, songs>>

PlGenerate ==
    /\ playlists = <<>>
    /\ \E u \in Users, q \in AutoGenQueries : AutoGenerate(u, q)
    /\ UNCHANGED <<files, browser, now, games, sessions, moodLogs, songs>>

PlGet ==
    /\ \E u \in Users, id \in PlaylistRefs : GetPlaylist(u, id)
    /\ UNCHANGED <<files, browser, now, games, sessions, moodLogs, songs>>

PlUpdate ==
    /\ \E u \in Users, id \in PlaylistRefs, b \in UpdateBodies : UpdatePlaylist(u, id, b)
    /\ UNCHANGED <<files, browser, now, games, sessions, moodLogs, songs>>

PlDelete ==
    /\ \E u \in Users, id \in PlaylistRefs : DeletePlaylist(u, id)
    /\ UNCHANGED <<files, browser, now, games, sessions, moodLogs, songs>>

PlAddSong ==
    /\ \E u \in Users, id \in PlaylistRefs, songId \in SongRefs : AddSong(u, id, songId)
    /\ UNCHANGED <<files, browser, now, games, sessions, moodLogs, songs>>

PlRemoveSong ==
    /\ \E u \in Users, id \in PlaylistRefs, songId \in SongRefs :
          RemoveSong(u, id, songId)
    /\ UNCHANGED <<files, browser, now, games, sessions, moodLogs, songs>>

PlPlay ==
    /\ \E u \in Users, id \in PlaylistRefs :
          /\ PlaylistExists(id) => playlists[id].playCount < MaxPlays
          /\ PlayPlaylist(u, id)
    /\ UNCHANGED <<files, browser, now, games, sessions, moodLogs, songs>>

PlFollow ==
    /\ \E u \in Users, id \in PlaylistRefs : FollowPlaylist(u, id)
    /\ UNCHANGED <<files, browser, now, games, sessions, moodLogs, songs>>

NextPlaylist ==
    \/ PlCreate \/ PlGenerate \/ PlGet \/ PlUpdate \/ PlDelete
    \/ PlAddSong \/ PlRemoveSong \/ PlPlay \/ PlFollow

-----------------------------------------------------------------------------
(* Songs and game sessions by id *)

\* the answer of a song route that names a song
SongResp(op, status, u, id) == [op |-> op, status |-> status, user |-> u, song |-> id]

\* GET /api/songs/:id
GetSong(u, id) ==
    /\ resp' = SongResp("getSong",
                        IF ~SongExists(id) THEN 404
                        ELSE IF ~songs[id].isPublic /\ songs[id].uploadedBy # u
                             THEN 403 ELSE 200,
                        u, id)
    /\ UNCHANGED songs

\* the fields of allowedUpdates the song documents of the model hold
songAllowedUpdates == {"genre", "moodTags", "tempo", "energy", "valence", "isPublic"}

\* a field of the body is copied when it is allowed and defined
SongUpdated(field, b, old) ==
    IF field \in songAllowedUpdates /\ ~IsNull(b[field]) THEN Val(b[field]) ELSE old

\* Object.assign(song, updates)
assignSongUpdates(song, b) ==
    [song EXCEPT !.genre = SongUpdated("genre", b, @),
                 !.moodTags = SongUpdated("moodTags", b, @),
                 !.tempo = SongUpdated("tempo", b, @),
                 !.energy = SongUpdated("energy", b, @),
                 !.valence = SongUpdated("valence", b, @),
                 !.isPublic = SongUpdated("isPublic", b, @)]

\* song.uploadedBy is not the requester
ForeignSong(u, id) == songs[id].uploadedBy # u

\* PUT /api/songs/:id
UpdateSong(u, id, b) ==
    IF ~IsNull(b.genre) /\ Val(b.genre) \notin GenreEnum
    THEN /\ resp' = SongResp("updateSong", 400, u, id)
         /\ UNCHANGED songs
    ELSE IF ~SongExists(id)
    THEN /\ resp' = SongResp("updateSong", 404, u, id)
         /\ UNCHANGED songs
    ELSE IF ForeignSong(u, id)
    THEN /\ resp' = SongResp("updateSong", 403, u, id)
         /\ UNCHANGED songs
    ELSE IF ~validateSong(assignSongUpdates(songs[id], b))
    THEN /\ resp' = SongResp("updateSong", 500, u, id)
         /\ UNCHANGED songs
    ELSE /\ songs' = [songs EXCEPT ![id] = assignSongUpdates(@, b)]
         /\ resp' = SongResp("updateSong", 200, u, id)

\* DELETE /api/songs/:id
DeleteSong(u, id) ==
    IF ~SongExists(id)
    THEN /\ resp' = SongResp("deleteSong", 404, u, id)
         /\ UNCHANGED <<songs, files>>
    ELSE IF ForeignSong(u, id)
    THEN /\ resp' = SongResp("deleteSong", 403, u, id)
         /\ UNCHANGED <<songs, files>>
    ELSE /\ files' = unlinkSync(files, songs[id].filePath)
         /\ songs' = [songs EXCEPT ![id].uploadedBy = NoOne, ![id].isPublic = FALSE]
         /\ resp' = SongResp("deleteSong", 200, u, id)

\* GET /api/games/sessions/:sessionId
GetSession(u, sid) ==
    /\ resp' = [op |-> "getSession",
                status |-> IF FindSession(sid, u) = {} THEN 404 ELSE 200,
                user |-> u, sessionId |-> sid]
    /\ UNCHANGED <<games, sessions>>

NoSongUpdate ==
    [genre |-> Null, moodTags |-> Null, tempo |-> Null, energy |-> Null,
     valence |-> Null, isPublic |-> Null]

\* request bodies of PUT /api/songs/:id
SongUpdateBodies ==
    {[NoSongUpdate EXCEPT !.isPublic = Some(FALSE)],
     [NoSongUpdate EXCEPT !.genre = Some("jazz"), !.energy = Some(7)],
     [NoSongUpdate EXCEPT !.genre = Some("polka")],
     [NoSongUpdate EXCEPT !.energy = Some(11)]}

\* the documents of the users stored in the run of by-id requests
ByIdDocs == Len(moodLogs) + Len(songs) + Len(playlists) + Len(sessions)

\* bodies of POST /api/songs/upload: a public song and a private one
ByIdSongBodies ==
    {[NoSongBody EXCEPT !.genre = "pop", !.moodTags = {"happy"}],
     [NoSongBody EXCEPT !.genre = "rock", !.isPublic = Some(FALSE)]}

ByIdMood ==
    /\ ByIdDocs < MaxByIdDocs
    /\ \E u \in Users : LogMood(u, [NoMoodBody EXCEPT !.timeOfDay = Some("morning")])
    /\ UNCHANGED <<files, browser, now, games, sessions, songs, playlists>>

ByIdUpload ==
    /\ ByIdDocs < MaxByIdDocs
    /\ \E u \in Users, b \in ByIdSongBodies : UploadSong(u, b, Some(0))
    /\ UNCHANGED <<browser, now, games, sessions, moodLogs, playlists>>

ByIdCreatePlaylist ==
    /\ ByIdDocs < MaxByIdDocs
    /\ \E u \in Users : CreatePlaylist(u, [name |-> "Morning", isPublic |-> Null])
    /\ UNCHANGED <<files, browser, now, games, sessions, moodLogs, songs>>

ByIdStart ==
    /\ ByIdDocs < MaxByIdDocs
    /\ \E u \in Users :
            StartSession(u, "g1", [mood |-> Some("sad"), intensity |-> Some(3)])
    /\ UNCHANGED <<files, browser, now, moodLogs, songs, playlists>>

SongGet ==
    /\ \E u \in Users, id \in SongRefs : GetSong(u, id)
    /\ UNCHANGED <<files, browser, now, games, sessions, moodLogs, playlists>>

SongPut ==
    /\ \E u \in Users, id \in SongRefs, b \in SongUpdateBodies : UpdateSong(u, id, b)
    /\ UNCHANGED <<files, browser, now, games, sessions, moodLogs, playlists>>

SongDelete ==
    /\ \E u \in Users, id \in SongRefs : DeleteSong(u, id)
    /\ UNCHANGED <<browser, now, games, sessions, moodLogs, playlists>>

SessionGet ==
    /\ \E u \in Users, sid \in SessionRefs : GetSession(u, sid)
    /\ UNCHANGED <<files, browser, now, moodLogs, songs, playlists>>

NextById ==
    \/ ByIdMood \/ ByIdUpload \/ ByIdCreatePlaylist \/ ByIdStart
    \/ GetMood \/ PutMood \/ DeleteMood
    \/ SongGet \/ SongPut \/ SongDelete
    \/ PlGet \/ PlUpdate \/ PlDelete
    \/ SessionGet \/ RateComplete

-----------------------------------------------------------------------------
(* The upload directory *)

RandomSuffixes == {0, 1}

\* the request's audio file as multer stores it, or none
UploadFiles == {Null} \cup {Some(r) : r \in RandomSuffixes}

UploadBodies ==
    {[NoSongBody EXCEPT !.genre = "pop"],
     [NoSongBody EXCEPT !.genre = "polka"],
     [NoSongBody EXCEPT !.genre = "pop", !.energy = Some(11)]}

DirTick ==
    /\ now < MaxUploadTicks
    /\ Tick(1)

DirUpload ==
    /\ Len(songs) < MaxUploads
    /\ \E u \in Users, b \in UploadBodies, f \in UploadFiles : UploadSong(u, b, f)
    /\ UNCHANGED <<browser, now, games, sessions, moodLogs, playlists>>

DirDelete ==
    /\ \E u \in Users, id \in 1..MaxUploads : DeleteSong(u, id)
    /\ UNCHANGED <<browser, now, games, sessions, moodLogs, playlists>>

NextUpload == DirTick \/ DirUpload \/ DirDelete

-----------------------------------------------------------------------------
(* Analytics *)

\* numbers that need not be whole: num / den
Frac(n, d) == [num |-> n, den |-> d]

Number(n) == Frac(n, 1)

RECURSIVE SumOf(_, _)
SumOf(f, S) ==
    IF S = {} THEN 0
    ELSE LET x == CHOOSE y \in S : TRUE IN f[x] + SumOf(f, S \ {x})

\* { $avg: ... } over the documents S of a collection, f giving the averaged field
Avg(f, S) == Frac(SumOf(f, S), Cardinality(S))

\* startDate.setDate(startDate.getDate() - days)
StartDate(days) == now - days * DayTicks

\* { $match: { user, createdAt: { $gte: startDate } } } on a collection
InWindow(coll, field, u, startDate) ==
    {i \in DOMAIN coll : coll[i][field] = u /\ coll[i].createdAt >= startDate}

\* the $group stage with _id: null: no output document when nothing was matched
moodStats(u, startDate) ==
    LET S == InWindow(moodLogs, "user", u, startDate) IN
    IF S = {} THEN <<>>
    ELSE <<[totalMoodLogs |-> Cardinality(S),
            avgMoodIntensity |-> Avg([i \in S |-> moodLogs[i].intensity], S),
            uniqueMoods |-> {moodLogs[i].mood : i \in S},
            detectionMethods |-> {moodLogs[i].detectionMethod : i \in S}]>>

listeningStats(u, startDate) ==
    LET S == InWindow(playbackLogs, "user", u, startDate) IN
    IF S = {} THEN <<>>
    ELSE <<[totalPlays |-> Cardinality(S),
            totalListeningTime |-> Number(SumOf([i \in S |-> playbackLogs[i].playDuration], S)),
            avgCompletion |-> Avg([i \in S |-> playbackLogs[i].completionPercentage], S),
            uniqueSongs |-> {playbackLogs[i].song : i \in S},
            likedSongs |-> Cardinality({i \in S : playbackLogs[i].liked})]>>

playlistStats(u, startDate) ==
    LET S == InWindow(playlists, "owner", u, startDate) IN
    IF S = {} THEN <<>>
    ELSE <<[totalPlaylists |-> Cardinality(S),
            totalSongsInPlaylists |-> SumOf([i \in S |-> Len(playlists[i].songs)], S),
            avgPlaylistSize |-> Avg([i \in S |-> Len(playlists[i].songs)], S),
            publicPlaylists |-> Cardinality({i \in S : playlists[i].isPublic})]>>

gameStats(u, startDate) ==
    LET S == InWindow(sessions, "user", u, startDate) IN
    IF S = {} THEN <<>>
    ELSE <<[totalGameSessions |-> Cardinality(S),
            completedSessions |-> Cardinality({i \in S : sessions[i].completed}),
            avgScore |-> Avg([i \in S |-> sessions[i].score], S),
            totalGameTime |-> SumOf([i \in S |-> sessions[i].duration], S),
            moodImprovements |->
                Cardinality({i \in S :
                    /\ ~IsNull(sessions[i].moodAfter.intensity)
                    /\ Val(sessions[i].moodAfter.intensity)
                         - Val(sessions[i].moodBefore.intensity) > 0})]>>

\* stats[0] || default
OrDefault(stats, default) == IF stats = <<>> THEN default ELSE stats[1]

moodDefaultBug ==
    [totalMoodLogs |-> 0, avgMoodIntensity |-> Number(0), uniqueMoods |-> {"happy"},
     detectionMethods |-> {}]

MoodDefault ==
    [totalMoodLogs |-> 0, avgMoodIntensity |-> Number(0), uniqueMoods |-> {},
     detectionMethods |-> {}]

ListeningDefault ==
    [totalPlays |-> 0, totalListeningTime |-> Number(0), avgCompletion |-> Number(0),
     uniqueSongs |-> {}, likedSongs |-> 0]

PlaylistsDefault ==
    [totalPlaylists |-> 0, totalSongsInPlaylists |-> 0, avgPlaylistSize |-> Number(0),
     publicPlaylists |-> 0]

GamesDefault ==
    [totalGameSessions |-> 0, completedSessions |-> 0, avgScore |-> Number(0),
     totalGameTime |-> 0, moodImprovements |-> 0]

\* find({ user }).sort({ createdAt: -1 }).limit(n) on a collection: the lists of
\* positions the store may return (documents created at the same time come in
\* any order)
findRecent(coll, u, n) ==
    LET S == {i \in DOMAIN coll : coll[i].user = u}
        k == IF Cardinality(S) < n THEN Cardinality(S) ELSE n
    IN {s \in [1..k -> S] :
          /\ \A a, b \in 1..k :
                a < b => s[a] # s[b] /\ coll[s[a]].createdAt >= coll[s[b]].createdAt
          /\ \A i \in S \ {s[a] : a \in 1..k} :
                \A a \in 1..k : coll[s[a]].createdAt >= coll[i].createdAt}

\* the validator of the days parameter: whole, from lo to 365
DaysValid(days, lo) == IsNull(days) \/ Val(days) \in lo..365

\* GET /api/analytics/dashboard: the overview of the response
Dashboard(u, daysIn) ==
    IF ~DaysValid(daysIn, 1)
    THEN resp' = [op |-> "dashboard", status |-> 400, user |-> u, days |-> daysIn]
    ELSE LET days == IF IsNull(daysIn) THEN 30 ELSE Val(daysIn)
             startDate == StartDate(days)
         IN \E recentMoods \in findRecent(moodLogs, u, 5),
               recentPlays \in findRecent(playbackLogs, u, 5),
               recentGames \in findRecent(sessions, u, 3) :
            resp' = [op |-> "dashboard", status |-> 200, user |-> u, days |-> daysIn,
                     overview |->
                       [mood |-> OrDefault(moodStats(u, startDate), MoodDefault),
                        listening |-> OrDefault(listeningStats(u, startDate),
                                               ListeningDefault),
                        playlists |-> OrDefault(playlistStats(u, startDate),
                                               PlaylistsDefault),
                        games |-> OrDefault(gameStats(u, startDate), GamesDefault)],
                     recentActivity |-> [moods |-> recentMoods, plays |-> recentPlays,
                                         games |-> recentGames]]

\* the $group stage by mood, as the set of its output documents (the route sorts
\* them by count, the greatest first)
moodGroups(u, startDate) ==
    LET S == InWindow(moodLogs, "user", u, startDate) IN
    {[mood |-> m,
      count |-> Cardinality({i \in S : moodLogs[i].mood = m}),
      avgIntensity |-> Avg([i \in S |-> moodLogs[i].intensity],
                           {i \in S : moodLogs[i].mood = m})] :
        m \in {moodLogs[i].mood : i \in S}}

totalOfMoodsBug(groups) == Cardinality(groups)

\* moodDistribution.reduce((sum, mood) => sum + mood.count, 0)
totalMoods(groups) == SumOf([g \in groups |-> g.count], groups)

\* mood.percentage = totalMoods > 0 ? (mood.count / totalMoods) * 100 : 0
withPercentage(g, total) ==
    [mood |-> g.mood, count |-> g.count, avgIntensity |-> g.avgIntensity,
     percentage |-> IF total > 0 THEN Frac(g.count * 100, total) ELSE Number(0)]

\* GET /api/analytics/mood-trends: moodDistribution and summary of the response
MoodTrends(u, daysIn) ==
    IF ~DaysValid(daysIn, 7)
    THEN resp' = [op |-> "moodTrends", status |-> 400, user |-> u, days |-> daysIn]
    ELSE LET days == IF IsNull(daysIn) THEN 30 ELSE Val(daysIn)
             groups == moodGroups(u, StartDate(days))
         IN resp' = [op |-> "moodTrends", status |-> 200, user |-> u, days |-> daysIn,
                     moodDistribution |->
                        {withPercentage(g, totalMoods(groups)) : g \in groups},
                     totalEntries |-> totalMoods(groups)]

\* MoodLog.getMoodFrequency behind GET /api/moods/frequency
getMoodFrequency(u, days) ==
    {[mood |-> g.mood, count |-> g.count, avgIntensity |-> g.avgIntensity] :
        g \in moodGroups(u, StartDate(days))}

\* GET /api/moods/frequency. mongoose.Types.ObjectId(userId) is a call without new:
\* it returns an id where ObjectId is a function and throws where it is a class, and
\* the route answers a throw with 500
MoodFrequency(u, daysIn) ==
    IF ~DaysValid(daysIn, 1)
    THEN resp' = [op |-> "frequency", status |-> 400, user |-> u, days |-> daysIn]
    ELSE \/ resp' = [op |-> "frequency", status |-> 500, user |-> u, days |-> daysIn]
         \/ resp' = [op |-> "frequency", status |-> 200, user |-> u, days |-> daysIn,
                  frequency |-> getMoodFrequency(u, IF IsNull(daysIn) THEN 30
                                                    ELSE Val(daysIn))]

\* the clock steps by twenty days
DayTick ==
    /\ now + 20 * DayTicks <= MaxDays * DayTicks
    /\ Tick(20 * DayTicks)

\* the documents the dashboard reads
DashDocs == Len(moodLogs) + Len(sessions) + Len(playlists)

DashPostMood ==
    /\ DashDocs < MaxDashDocs
    /\ \E u \in Users, b \in MoodBodies : LogMood(u, b)
    /\ UNCHANGED <<files, browser, now, games, sessions, songs, playlists>>

DashStart ==
    /\ DashDocs < MaxDashDocs
    /\ \E u \in Users, g \in GameRefs, mb \in StartBodies : StartSession(u, g, mb)
    /\ UNCHANGED <<files, browser, now, moodLogs, songs, playlists>>

DashCreatePlaylist ==
    /\ DashDocs < MaxDashDocs
    /\ \E u \in Users, b \in PlaylistBodies : CreatePlaylist(u, b)
    /\ UNCHANGED <<files, browser, now, games, sessions, moodLogs, songs>>

GetDashboard ==
    /\ \E u \in Users, d \in {Null, Some(1), Some(0)} : Dashboard(u, d)
    /\ UNCHANGED <<files, browser, now, games, sessions, moodLogs, songs, playlists>>

NextDashboard ==
    DayTick \/ DashPostMood \/ DashStart \/ Complete \/ DashCreatePlaylist \/ GetDashboard

RecentTick ==
    /\ now < MaxRecentTicks
    /\ Tick(1)

RecentPostMood ==
    /\ Len(moodLogs) < MaxRecentLogs
    /\ LogMood("u1", [NoMoodBody EXCEPT !.timeOfDay = Some("morning")])
    /\ UNCHANGED <<files, browser, now, games, sessions, songs, playlists>>

RecentStart ==
    /\ Len(sessions) < MaxRecentSessions
    /\ \E u \in Users : StartSession(u, "g1", [mood |-> Some("sad"), intensity |-> Some(3)])
    /\ UNCHANGED <<files, browser, now, moodLogs, songs, playlists>>

RecentDashboard ==
    /\ \E u \in Users : Dashboard(u, Null)
    /\ UNCHANGED <<files, browser, now, games, sessions, moodLogs, songs, playlists>>

NextRecent == RecentTick \/ RecentPostMood \/ RecentStart \/ RecentDashboard

GetMoodTrends ==
    /\ \E u \in Users, d \in {Null, Some(7), Some(1)} : MoodTrends(u, d)
    /\ UNCHANGED <<files, browser, now, games, sessions, moodLogs, songs, playlists>>

GetMoodFrequency ==
    /\ \E u \in Users, d \in {Null, Some(1)} : MoodFrequency(u, d)
    /\ UNCHANGED <<files, browser, now, games, sessions, moodLogs, songs, playlists>>

NextTrends == DayTick \/ PostMood \/ GetMoodTrends \/ GetMoodFrequency

-----------------------------------------------------------------------------
(* The browser: stores and components *)

\* setTimeout: a timer is null when it is not set and holds the tenths of a
\* second left until it fires when it is
Due(timer) == ~IsNull(timer) /\ Val(timer) = 0

Running(timer) == ~IsNull(timer) /\ Val(timer) > 0

Elapse(timer) == IF IsNull(timer) THEN Null ELSE Some(Val(timer) - 1)

\* the tap-the-notes game (MoodUpliftmentGame): useState values, the timers of
\* its two effects, and the timers that remove clicked notes
RoundSeconds == 30
CountdownDelay == 10
NoteDelay == 15
RemoveDelay == 3

InitTap ==
    [open |-> FALSE, gameState |-> "intro", score |-> 0, timeLeft |-> RoundSeconds,
     notes |-> <<>>, gameStarted |-> FALSE, timer |-> Null, noteTimer |-> Null,
     removals |-> <<>>, nextId |-> 1]

\* the two effects after a render: the countdown effect runs when timeLeft or
\* gameState changed, the note effect also when notes was set; an effect that
\* runs clears its timer and sets it again while the round lasts.
TapEffects(old, new, notesSet) ==
    LET moved == new.timeLeft # old.timeLeft \/ new.gameState # old.gameState
        live == new.gameState = "playing" /\ new.timeLeft > 0
    IN [new EXCEPT
          !.timer = IF moved THEN (IF live THEN Some(CountdownDelay) ELSE Null)
                    ELSE new.timer,
          !.noteTimer = IF moved \/ notesSet
                        THEN (IF live THEN Some(NoteDelay) ELSE Null)
                        ELSE new.noteTimer]

\* the countdown effect that ran with timeLeft 0 while playing has called
\* setGameState('completed'): the component renders again
EndOfRound ==
    /\ tap.gameState = "playing" /\ tap.timeLeft = 0
    /\ tap' = TapEffects(tap, [tap EXCEPT !.gameState = "completed"], FALSE)

\* generateNewNote, on the state `t`
generateNewNote(t) ==
    [t EXCEPT !.notes = Append(@, [id |-> t.nextId, clicked |-> FALSE]),
              !.nextId = @ + 1]

\* the dialog is opened: the effect on `open` resets the game
TapOpen ==
    /\ ~tap.open
    /\ tap' = TapEffects(tap, [tap EXCEPT !.open = TRUE, !.gameState = "intro",
                                          !.score = 0, !.timeLeft = RoundSeconds,
                                          !.notes = <<>>, !.gameStarted = FALSE],
                         TRUE)

TapClose ==
    /\ tap.open
    /\ tap' = [tap EXCEPT !.open = FALSE]

\* startGame
startGame ==
    /\ tap.open /\ tap.gameState = "intro"
    /\ tap.nextId <= MaxTapNotes
    /\ tap' = TapEffects(tap, generateNewNote([tap EXCEPT !.gameState = "playing",
                                                          !.gameStarted = TRUE]),
                         TRUE)

\* handleNoteClick on a note that was not clicked yet
handleNoteClick(k) ==
    /\ tap.open /\ tap.gameState = "playing"
    /\ ~tap.notes[k].clicked
    /\ tap' = TapEffects(tap,
                [tap EXCEPT !.notes[k].clicked = TRUE,
                            !.score = @ + 10,
                            !.removals = Append(@, [id |-> tap.notes[k].id,
                                                    left |-> Some(RemoveDelay)])],
                TRUE)

\* the End Game button
EndGame ==
    /\ tap.open /\ tap.gameState = "playing"
    /\ tap' = TapEffects(tap, [tap EXCEPT !.gameState = "completed", !.timeLeft = 0],
                         FALSE)

\* the Play Again button
PlayAgain ==
    /\ tap.open /\ tap.gameState = "completed"
    /\ tap' = TapEffects(tap, [tap EXCEPT !.gameState = "intro", !.score = 0,
                                          !.timeLeft = RoundSeconds, !.notes = <<>>,
                                          !.gameStarted = FALSE],
                         TRUE)

\* a tenth of a second passes while no timer is due
TapElapse ==
    /\ Running(tap.timer) \/ Running(tap.noteTimer)
         \/ \E k \in DOMAIN tap.removals : Running(tap.removals[k].left)
    /\ ~Due(tap.timer) /\ ~Due(tap.noteTimer)
    /\ \A k \in DOMAIN tap.removals : ~Due(tap.removals[k].left)
    /\ tap' = [tap EXCEPT !.timer = Elapse(@), !.noteTimer = Elapse(@),
                          !.removals = [k \in DOMAIN @ |->
                                          [@[k] EXCEPT !.left = Elapse(@)]]]

\* a timer that is due runs its callback: the countdown takes a second off
\* timeLeft, the note timer calls generateNewNote, a removal timer filters its
\* note out of notes
TapTimeout(which) ==
    CASE which = "countdown" ->
            /\ Due(tap.timer)
            /\ tap' = TapEffects(tap, [tap EXCEPT !.timer = Null, !.timeLeft = @ - 1],
                                 FALSE)
      [] which = "note" ->
            /\ Due(tap.noteTimer)
            /\ tap' = TapEffects(tap, generateNewNote([tap EXCEPT !.noteTimer = Null]),
                                 TRUE)
      [] which = "removal" ->
            /\ tap.removals # <<>> /\ Due(tap.removals[1].left)
            /\ tap' = TapEffects(tap,
                        [tap EXCEPT !.removals = Tail(@),
                                    !.notes = SelectSeq(@, LAMBDA n :
                                                  n.id # tap.removals[1].id)],
                        TRUE)

unmoved == <<server, files, inflight>>

TapDialog ==
    /\ TapOpen \/ TapClose
    /\ UNCHANGED <<unmoved, music, auth, breath>>

TapButton ==
    /\ startGame \/ EndGame \/ PlayAgain \/ \E k \in DOMAIN tap.notes : handleNoteClick(k)
    /\ UNCHANGED <<unmoved, music, auth, breath>>

TapTime ==
    /\ TapElapse
    /\ UNCHANGED <<unmoved, music, auth, breath>>

TapTimer ==
    /\ \E which \in {"countdown", "note", "removal"} : TapTimeout(which)
    /\ UNCHANGED <<unmoved, music, auth, breath>>

TapRound ==
    /\ EndOfRound
    /\ UNCHANGED <<unmoved, music, auth, breath>>

NextTap == TapDialog \/ TapButton \/ TapTime \/ TapTimer \/ TapRound

-----------------------------------------------------------------------------
(* The music store (useMusicStore).  `audio` is the state of the store's    *)
(* audio element: paused, playing or ended; `timers` holds the timeouts     *)
(* playSong has set and that have not fired, the oldest first, as the       *)
(* tenths of a second left.                                                 *)

\* ids of the songs the pages pass to the store
StoreSongs == {"1", "2", "3"}

PlayDelay == 1

InitMusic ==
    [currentSong |-> Null, isPlaying |-> FALSE, queue |-> <<>>, audio |-> Null,
     timers |-> <<>>]

\* audioElement.pause()
pause(audio) ==
    IF ~IsNull(audio) /\ Val(audio) = "playing" THEN Some("paused") ELSE audio

\* setCurrentSong(song): the old element is paused, a new Audio takes its place
setCurrentSong(m, song) ==
    [m EXCEPT !.currentSong = song,
              !.audio = IF IsNull(song) THEN Null ELSE Some("paused"),
              !.isPlaying = FALSE]

\* togglePlay()
togglePlay(m) ==
    IF IsNull(m.audio) THEN m
    ELSE IF m.isPlaying
    THEN [m EXCEPT !.audio = pause(@), !.isPlaying = FALSE]
    ELSE [m EXCEPT !.audio = Some("playing"), !.isPlaying = TRUE]

\* playSong(song): setCurrentSong, and togglePlay after 100 ms
playSong(m, song) ==
    [setCurrentSong(m, Some(song)) EXCEPT !.timers = Append(@, PlayDelay)]

\* stopPlayback(): pause, and currentTime = 0
stopPlayback(m) ==
    [m EXCEPT !.audio = IF IsNull(@) THEN Null ELSE Some("paused"),
              !.isPlaying = FALSE]

\* queue.findIndex(song => song.id === currentSong?.id), counted from 1; 0 when
\* no song of the queue has the id
findIndex(m) ==
    LET hits == {k \in DOMAIN m.queue : m.currentSong = Some(m.queue[k])} IN
    IF hits = {} THEN 0 ELSE CHOOSE k \in hits : \A j \in hits : k <= j

\* playNext(): queue[currentIndex + 1] || queue[0]
playNext(m) ==
    LET i == findIndex(m) IN
    IF m.queue = <<>> THEN m
    ELSE playSong(m, IF i + 1 \in DOMAIN m.queue THEN m.queue[i + 1] ELSE m.queue[1])

\* playPrevious(): queue[currentIndex - 1] || queue[queue.length - 1]
playPrevious(m) ==
    LET i == findIndex(m) IN
    IF m.queue = <<>> THEN m
    ELSE playSong(m, IF i - 1 \in DOMAIN m.queue THEN m.queue[i - 1]
                     ELSE m.queue[Len(m.queue)])

\* addToQueue(song)
addToQueue(m, song) == [m EXCEPT !.queue = Append(@, song)]

\* removeFromQueue(songId)
removeFromQueue(m, songId) ==
    [m EXCEPT !.queue = SelectSeq(@, LAMBDA song : song # songId)]

\* the playing element reaches the end of the song: its 'ended' listener calls
\* playNext
ended(m) == playNext([m EXCEPT !.audio = Some("ended")])

\* the oldest timeout of playSong fires: togglePlay
timeout(m) == togglePlay([m EXCEPT !.timers = Tail(@)])

documents == <<now, games, sessions, moodLogs, songs, playlists>>

\* the store's state becomes `m` by the call or event named `op`
Did(op, m) ==
    /\ music' = m
    /\ resp' = [op |-> op, status |-> 0]
    /\ UNCHANGED <<documents, files, inflight, tap, auth, breath>>

MusicSetCurrentSong ==
    \E song \in {Null} \cup {Some(id) : id \in StoreSongs} :
        Did("setCurrentSong", setCurrentSong(music, song))

MusicPlaySong ==
    /\ Len(music.timers) < MaxTimers
    /\ \E song \in StoreSongs : Did("playSong", playSong(music, song))

MusicTogglePlay == Did("togglePlay", togglePlay(music))

MusicStopPlayback == Did("stopPlayback", stopPlayback(music))

MusicPlayNext ==
    /\ Len(music.timers) < MaxTimers
    /\ Did("playNext", playNext(music))

MusicPlayPrevious ==
    /\ Len(music.timers) < MaxTimers
    /\ Did("playPrevious", playPrevious(music))

MusicAddToQueue ==
    /\ Len(music.queue) < MaxQueue
    /\ \E song \in StoreSongs : Did("addToQueue", addToQueue(music, song))

MusicRemoveFromQueue ==
    \E id \in StoreSongs : Did("removeFromQueue", removeFromQueue(music, id))

MusicEnded ==
    /\ music.audio = Some("playing")
    /\ Len(music.timers) < MaxTimers
    /\ Did("ended", ended(music))

MusicTimeout ==
    /\ music.timers # <<>> /\ music.timers[1] = 0
    /\ Did("timeout", timeout(music))

\* a tenth of a second passes while no timeout is due
MusicElapse ==
    /\ music.timers # <<>> /\ music.timers[1] > 0
    /\ music' = [music EXCEPT !.timers = [k \in DOMAIN @ |-> @[k] - 1]]
    /\ resp' = NoResp
    /\ UNCHANGED <<documents, files, inflight, tap, auth, breath>>

NextMusic ==
    \/ MusicSetCurrentSong \/ MusicPlaySong \/ MusicTogglePlay \/ MusicStopPlayback
    \/ MusicPlayNext \/ MusicPlayPrevious \/ MusicAddToQueue \/ MusicRemoveFromQueue
    \/ MusicEnded \/ MusicTimeout \/ MusicElapse

-----------------------------------------------------------------------------
(* The auth store (useAuthStore).  `pending` holds the logins that wait for *)
(* their simulated API call: the user each will set and the half seconds    *)
(* left until its promise resolves.                                         *)

LoginDelay == 2
GoogleDelay == 3

Emails == {"ann@example.com", "bob@example.com"}

GoogleUser == "user@gmail.com"

InitAuth == [user |-> Null, isAuthenticated |-> FALSE, isLoading |-> FALSE,
             pending |-> <<>>]

\* login(email, password) up to its await
login(a, email) ==
    [a EXCEPT !.isLoading = TRUE,
              !.pending = Append(@, [user |-> email, left |-> LoginDelay])]

\* loginWithGoogle() up to its await
loginWithGoogle(a) ==
    [a EXCEPT !.isLoading = TRUE,
              !.pending = Append(@, [user |-> GoogleUser, left |-> GoogleDelay])]

\* logout()
logout(a) == [a EXCEPT !.user = Null, !.isAuthenticated = FALSE]

\* setUser(user)
setUser(a, user) == [a EXCEPT !.user = Some(user), !.isAuthenticated = TRUE]

\* the promise of the pending login at position k resolves: the rest of login
\* or loginWithGoogle
resolved(a, k) ==
    [a EXCEPT !.user = Some(a.pending[k].user), !.isAuthenticated = TRUE,
              !.isLoading = FALSE,
              !.pending = [j \in 1..(Len(@) - 1) |-> IF j < k THEN @[j] ELSE @[j + 1]]]

\* the store's state becomes `a` by the call or event named `op`
AuthDid(op, a) ==
    /\ auth' = a
    /\ resp' = [op |-> op, status |-> 0]
    /\ UNCHANGED <<documents, files, inflight, tap, music, breath>>

AuthLogin ==
    /\ Len(auth.pending) < MaxPendingLogins
    /\ \E email \in Emails : AuthDid("login", login(auth, email))

AuthLoginWithGoogle ==
    /\ Len(auth.pending) < MaxPendingLogins
    /\ AuthDid("loginWithGoogle", loginWithGoogle(auth))

AuthLogout == AuthDid("logout", logout(auth))

AuthSetUser == \E user \in Emails : AuthDid("setUser", setUser(auth, user))

AuthResolve ==
    \E k \in DOMAIN auth.pending :
        /\ auth.pending[k].left = 0
        /\ AuthDid("resolved", resolved(auth, k))

\* half a second passes while no promise is due
AuthElapse ==
    /\ auth.pending # <<>>
    /\ \A k \in DOMAIN auth.pending : auth.pending[k].left > 0
    /\ auth' = [auth EXCEPT !.pending = [k \in DOMAIN @ |->
                                            [@[k] EXCEPT !.left = @ - 1]]]
    /\ resp' = NoResp
    /\ UNCHANGED <<documents, files, inflight, tap, music, breath>>

NextAuth ==
    \/ AuthLogin \/ AuthLoginWithGoogle \/ AuthLogout \/ AuthSetUser
    \/ AuthResolve \/ AuthElapse

-----------------------------------------------------------------------------
(* The breathing exercise (BreathingExerciseGame): useState values and the  *)
(* one-second timer of its effect, in seconds.                              *)

\* values the sliders of the intro screen are moved to
CycleChoices == {1, 2, 5}
CustomChoices == {0, 4}

DefaultCycles == 5
DefaultPhaseTime == 4

PatternIds == {"4-4-4-4", "4-7-8", "6-2-6-2", "custom"}

\* breathingPatterns, as inhaleTime, holdTime, exhaleTime and pauseTime by id
breathingPatterns(b) ==
    [id \in PatternIds |->
        CASE id = "4-4-4-4" -> [inhale |-> 4, hold |-> 4, exhale |-> 4, pause |-> 4]
          [] id = "4-7-8"   -> [inhale |-> 4, hold |-> 7, exhale |-> 8, pause |-> 0]
          [] id = "6-2-6-2" -> [inhale |-> 6, hold |-> 2, exhale |-> 6, pause |-> 2]
          [] id = "custom"  -> b.customPattern]

\* getPhaseTime(phase) of the current pattern
getPhaseTime(b, phase) == breathingPatterns(b)[b.selectedPattern][phase]

InitBreath ==
    [open |-> FALSE, gameState |-> "intro", selectedPattern |-> "4-4-4-4",
     isPlaying |-> FALSE, currentPhase |-> "inhale", timeLeft |-> 0, cycleCount |-> 0,
     totalCycles |-> DefaultCycles,
     customPattern |-> [inhale |-> DefaultPhaseTime, hold |-> DefaultPhaseTime,
                        exhale |-> DefaultPhaseTime, pause |-> DefaultPhaseTime],
     timer |-> Null]

phases == <<"inhale", "hold", "exhale", "pause">>

indexOf(phase) == CHOOSE k \in DOMAIN phases : phases[k] = phase

\* the effect has run with timeLeft 0 and moves to the next phase on the next
\* render
AtPhaseEnd(b) == b.isPlaying /\ b.gameState = "playing" /\ b.timeLeft = 0

\* the effect after a render in which one of its dependencies changed: the
\* cleanup clears the timer, and the body sets it again while the exercise
\* plays and the phase has time left
BreathEffect(b) ==
    [b EXCEPT !.timer = IF b.isPlaying /\ b.gameState = "playing" /\ b.timeLeft > 0
                        THEN Some(1) ELSE Null]

nextPhaseLateBug(b) ==
    LET currentIndex == indexOf(b.currentPhase) IN
    IF currentIndex = Len(phases)
    THEN IF b.cycleCount + 1 > b.totalCycles
         THEN BreathEffect([b EXCEPT !.cycleCount = @ + 1, !.isPlaying = FALSE,
                                     !.gameState = "completed"])
         ELSE BreathEffect([b EXCEPT !.cycleCount = @ + 1, !.currentPhase = "inhale",
                                     !.timeLeft = getPhaseTime(b, "inhale")])
    ELSE BreathEffect([b EXCEPT !.currentPhase = phases[currentIndex + 1],
                                !.timeLeft = getPhaseTime(b, phases[currentIndex + 1])])

\* the effect's branch for timeLeft 0: the next phase, or the end of a cycle
nextPhase(b) ==
    LET currentIndex == indexOf(b.currentPhase) IN
    IF currentIndex = Len(phases)
    THEN IF b.cycleCount + 1 >= b.totalCycles
         THEN BreathEffect([b EXCEPT !.cycleCount = @ + 1, !.isPlaying = FALSE,
                                     !.gameState = "completed"])
         ELSE BreathEffect([b EXCEPT !.cycleCount = @ + 1, !.currentPhase = "inhale",
                                     !.timeLeft = getPhaseTime(b, "inhale")])
    ELSE BreathEffect([b EXCEPT !.currentPhase = phases[currentIndex + 1],
                                !.timeLeft = getPhaseTime(b, phases[currentIndex + 1])])

\* startExercise
startExercise(b) ==
    BreathEffect([b EXCEPT !.gameState = "playing", !.currentPhase = "inhale",
                           !.timeLeft = getPhaseTime(b, "inhale"), !.cycleCount = 0,
                           !.isPlaying = TRUE])

\* togglePlayPause
togglePlayPause(b) == BreathEffect([b EXCEPT !.isPlaying = ~@])

\* stopExercise, and the effect on `open` when the dialog is opened
stopExercise(b) ==
    BreathEffect([b EXCEPT !.isPlaying = FALSE, !.gameState = "intro",
                           !.currentPhase = "inhale", !.timeLeft = 0,
                           !.cycleCount = 0])

\* the Try Again button
tryAgain(b) ==
    BreathEffect([b EXCEPT !.gameState = "intro", !.cycleCount = 0,
                           !.isPlaying = FALSE])

\* the timer fires: setTimeLeft(prev => prev - 1)
tick(b) == BreathEffect([b EXCEPT !.timeLeft = @ - 1])

Breathe(b) ==
    /\ breath' = b
    /\ UNCHANGED <<server, files, inflight, tap, music, auth>>

\* a handler of the user runs between renders, after the effects
BreathDialog ==
    /\ ~AtPhaseEnd(breath)
    /\ \/ ~breath.open /\ Breathe(stopExercise([breath EXCEPT !.open = TRUE]))
       \/ breath.open /\ Breathe([breath EXCEPT !.open = FALSE])

BreathSettings ==
    /\ breath.open /\ breath.gameState = "intro"
    /\ \/ \E id \in PatternIds : Breathe([breath EXCEPT !.selectedPattern = id])
       \/ \E n \in CycleChoices : Breathe([breath EXCEPT !.totalCycles = n])
       \/ \E phase \in {"hold", "pause"}, n \in CustomChoices :
             /\ breath.selectedPattern = "custom"
             /\ Breathe([breath EXCEPT !.customPattern[phase] = n])

BreathStart ==
    /\ breath.open /\ breath.gameState = "intro"
    /\ Breathe(startExercise(breath))

BreathToggle ==
    /\ breath.open /\ breath.gameState = "playing" /\ ~AtPhaseEnd(breath)
    /\ Breathe(togglePlayPause(breath))

BreathStop ==
    /\ breath.open /\ breath.gameState = "playing" /\ ~AtPhaseEnd(breath)
    /\ Breathe(stopExercise(breath))

BreathTryAgain ==
    /\ breath.open /\ breath.gameState = "completed"
    /\ Breathe(tryAgain(breath))

\* a second passes
BreathElapse ==
    /\ Running(breath.timer)
    /\ Breathe([breath EXCEPT !.timer = Elapse(@)])

BreathTimeout ==
    /\ Due(breath.timer)
    /\ Breathe(tick(breath))

BreathPhase ==
    /\ AtPhaseEnd(breath)
    /\ Breathe(nextPhase(breath))

NextBreath ==
    \/ BreathDialog \/ BreathSettings \/ BreathStart \/ BreathToggle \/ BreathStop
    \/ BreathTryAgain \/ BreathElapse \/ BreathTimeout \/ BreathPhase

-----------------------------------------------------------------------------
(* The browser's initial state *)

InitBrowser ==
    /\ inflight = <<>>
    /\ tap = InitTap
    /\ music = InitMusic
    /\ auth = InitAuth
    /\ breath = InitBreath

-----------------------------------------------------------------------------
(* Claims about game sessions *)

\* what a completion writes
\* no entry occurs twice in a list
NoDuplicates(list) == \A i, j \in DOMAIN list : list[i] = list[j] => i = j

CompletionFields(s) ==
    <<s.moodAfter, s.score, s.maxScore, s.duration, s.completedAt,
      s.completionPercentage, s.gameData, s.achievements>>

\* C1: a complete request by its owner on a session that is already completed is
\* answered 400, and no step changes what the first completion wrote
C1_CompleteOnce ==
    [][\A i \in DOMAIN sessions :
         sessions[i].completed =>
           /\ i \in DOMAIN sessions'
           /\ CompletionFields(sessions'[i]) = CompletionFields(sessions[i])
           /\ (/\ resp' # resp
               /\ resp'.op = "complete"
               /\ resp'.sessionId = sessions[i].sessionId
               /\ resp'.user = sessions[i].user) => resp'.status = 400]_vars

\* C1 witness: a second complete request on a completed session has been answered
C1_Witness ==
    \E i \in DOMAIN sessions :
        /\ sessions[i].completed
        /\ resp.op = "complete" /\ resp.status = 400
        /\ resp.sessionId = sessions[i].sessionId /\ resp.user = sessions[i].user

\* C4: moodImprovement is null while a session is not completed and is
\* moodAfter.intensity - moodBefore.intensity once it is, which is also what the
\* complete response reports
C4_MoodImprovement ==
    /\ \A i \in DOMAIN sessions :
          IF sessions[i].completed
          THEN moodImprovement(sessions[i]) =
                 Some(Val(sessions[i].moodAfter.intensity)
                      - Val(sessions[i].moodBefore.intensity))
          ELSE moodImprovement(sessions[i]) = Null
    /\ (resp.op = "complete" /\ resp.status = 200) =>
          \A i \in FindSession(resp.sessionId, resp.user) :
              Some(resp.moodImprovement) = moodImprovement(sessions[i])

\* C4 witness: one session completed with no change of intensity, one not completed
C4_Witness ==
    /\ \E i \in DOMAIN sessions :
          sessions[i].completed /\ moodImprovement(sessions[i]) = Some(0)
    /\ \E i \in DOMAIN sessions : ~sessions[i].completed

\* C14: a start request for a game that is missing or not active is answered 404,
\* stores no session and leaves every game's playCount as it was
C14_StartRejected ==
    [][(/\ resp'.op = "start"
        /\ resp'.game \notin DOMAIN games \/ ~games[resp'.game].isActive) =>
          /\ resp'.status = 404
          /\ sessions' = sessions
          /\ \A g \in DOMAIN games : games'[g].playCount = games[g].playCount]_vars

C14_Witness ==
    /\ resp.op = "start" /\ resp.status = 404
    /\ resp.game \in DOMAIN games
    /\ ~games[resp.game].isActive
    /\ games[resp.game].playCount = 0
    /\ \E i \in DOMAIN sessions : sessions[i].user = resp.user

\* session i was the first its user started with its game
FirstStarted(i) ==
    \A j \in DOMAIN sessions :
        (sessions[j].user = sessions[i].user /\ sessions[j].game = sessions[i].game)
            => j >= i

\* C15: a completed session holds the first-play achievement exactly when no session
\* of its user with its game was started before it
C15_FirstPlayIffFirst ==
    \A i \in DOMAIN sessions :
        sessions[i].completed =>
            (("first-play" \in Range(sessions[i].achievements)) <=> FirstStarted(i))

\* the completed sessions of the user and game of session i that ended before it
History(i) ==
    {j \in DOMAIN sessions :
        /\ j # i
        /\ sessions[j].user = sessions[i].user /\ sessions[j].game = sessions[i].game
        /\ sessions[j].completed
        /\ Val(sessions[j].completedAt) < Val(sessions[i].completedAt)}

\* the scores of the history of session i, added up
HistoryScore(i) == SumOf([j \in History(i) |-> sessions[j].score], History(i))

\* C18: a completed session holds perfect-score, quick-finish and mood-improver
\* exactly when their rules hold, and high-scorer exactly when its score is above
\* one and a half times the average score of its history (when it has one); no
\* achievement is held twice, and a session that is not completed holds none
C18_AchievementRules ==
    \A i \in DOMAIN sessions :
        LET s == sessions[i]
            got == Range(s.achievements)
        IN  /\ ~s.completed => s.achievements = <<>>
            /\ NoDuplicates(s.achievements)
            /\ s.completed =>
                 /\ ("perfect-score" \in got) <=> (s.score = s.maxScore /\ s.maxScore > 0)
                 /\ ("quick-finish" \in got) <=>
                        (s.duration < games[s.game].estimatedDuration * 60)
                 /\ ("mood-improver" \in got) <=>
                        (Val(s.moodAfter.intensity) - Val(s.moodBefore.intensity) >= 2)
                 /\ History(i) # {} =>
                        (("high-scorer" \in got) <=>
                            (2 * s.score * Cardinality(History(i)) > 3 * HistoryScore(i)))

\* C16: a rate request for a stored game by a user with no completed session of it
\* is answered 400, and a rate request that is not answered 200 leaves the rating
\* aggregate of every game and the rating of every session as they were
C16_RateNeedsCompleted ==
    [][resp'.op = "rate" =>
        /\ (resp'.game \in DOMAIN games
              /\ CompletedSessions(resp'.user, resp'.game) = {})
                => resp'.status = 400
        /\ resp'.status # 200 =>
              /\ \A g \in DOMAIN games :
                    /\ games'[g].averageRating = games[g].averageRating
                    /\ games'[g].ratingCount = games[g].ratingCount
              /\ Len(sessions') = Len(sessions)
              /\ \A i \in DOMAIN sessions : sessions'[i].rating = sessions[i].rating]_vars

\* a user whose only session of the game is not completed sent a well-formed rating
C16_Witness ==
    /\ resp.op = "rate" /\ resp.status = 400 /\ RateBodyValid(resp.body)
    /\ resp.game \in DOMAIN games
    /\ CompletedSessions(resp.user, resp.game) = {}
    /\ \E i \in DOMAIN sessions :
          sessions[i].user = resp.user /\ sessions[i].game = resp.game

\* C17: for every game, ratingCount is the number of accepted ratings,
\* averageRating * ratingCount is their sum, and averageRating lies within [1, 5]
\* once a rating was accepted
C17_AverageTimesCountIsSum ==
    \A g \in DOMAIN games :
        LET game == games[g] IN
        /\ game.ratingCount = game.accepted.n
        /\ Times(game.averageRating, game.ratingCount) = FromInt(game.accepted.sum)
        /\ game.accepted.n >= 1 =>
              /\ LessEq(FromInt(1), game.averageRating)
              /\ LessEq(game.averageRating, FromInt(5))

-----------------------------------------------------------------------------
(* Claims about mood logs *)

\* the user's logs stored before the log at position i
EarlierLogs(i) == {j \in 1..(i - 1) : moodLogs[j].user = moodLogs[i].user}

Last(S) == CHOOSE j \in S : \A k \in S : k <= j

\* C2: every stored log but the user's first carries (mood, intensity, createdAt) of
\* the user's log stored immediately before it; the first carries no previousMood
C2_PreviousMoodLinks ==
    \A i \in DOMAIN moodLogs :
        IF EarlierLogs(i) = {}
        THEN moodLogs[i].previousMood = Null
        ELSE moodLogs[i].previousMood =
               Some([mood |-> moodLogs[Last(EarlierLogs(i))].mood,
                     intensity |-> moodLogs[Last(EarlierLogs(i))].intensity,
                     timestamp |-> moodLogs[Last(EarlierLogs(i))].createdAt])

\* the four bands of the creation hour
BandOfHour(h) ==
    IF 5 <= h /\ h < 12 THEN "morning"
    ELSE IF 12 <= h /\ h < 17 THEN "afternoon"
    ELSE IF 17 <= h /\ h < 21 THEN "evening"
    ELSE "night"

\* C3: a valid log request that supplies no context.timeOfDay is stored, with the
\* band of its creation hour as context.timeOfDay
C3_TimeOfDayDerived ==
    (resp.op = "logMood" /\ IsNull(resp.timeOfDay) /\ resp.status # 400) =>
        /\ resp.status = 201
        /\ resp.log \in DOMAIN moodLogs
        /\ moodLogs[resp.log].context.timeOfDay =
             Some(BandOfHour(getHours(moodLogs[resp.log].createdAt)))

\* the fields of a log request that break a rule: mood and detectionMethod outside
\* their enums, intensity outside 1..10, confidence outside [0, 1] (in hundredths),
\* notes of more than 500 characters once trimmed
InvalidFields(b) ==
    {f \in {"mood", "intensity", "detectionMethod", "confidence", "notes"} :
        \/ f = "mood" /\ b.mood \notin MoodEnum
        \/ f = "intensity" /\ (b.intensity < 1 \/ b.intensity > 10)
        \/ f = "detectionMethod" /\ b.detectionMethod \notin DetectionEnum
        \/ f = "confidence" /\ ~IsNull(b.confidence)
              /\ (Val(b.confidence) < 0 \/ Val(b.confidence) > 100)
        \/ f = "notes" /\ ~IsNull(b.notes) /\ Len(Trim(Val(b.notes))) > 500}

WriteOnce(doc) ==
    <<doc.user, doc.mood, doc.intensity, doc.detectionMethod, doc.confidence,
      doc.previousMood, doc.sessionId, doc.createdAt>>

-----------------------------------------------------------------------------
(* Claims about songs and generated playlists *)

\* the songs of the playlist an auto-generate response returns
Generated == Range(playlists[resp.playlist].songs)

\* C5: a generated playlist holds only songs that are public or were uploaded by
\* the requester, whatever the mood, tempo and genre filters
C5_OnlyVisibleSongs ==
    (resp.op = "autoGenerate" /\ resp.status = 200) =>
        \A id \in Generated :
            songs[id].isPublic \/ songs[id].uploadedBy = resp.user

\* a song that passes the mood, tempo and genre filters of a request
PassesFilters(id, q) ==
    /\ IsNull(q.mood) \/ Val(q.mood) \in songs[id].moodTags
    /\ IsNull(q.tempo) \/ Val(q.tempo) = songs[id].tempo
    /\ IsNull(q.genre) \/ Val(q.genre) = songs[id].genre

C5_Witness ==
    /\ resp.op = "autoGenerate" /\ resp.status = 200
    /\ ~IsNull(resp.query.mood)
    /\ \E id \in DOMAIN songs :
          /\ ~songs[id].isPublic /\ songs[id].uploadedBy # resp.user
          /\ PassesFilters(id, resp.query)

\* the band [max(1, e - 2), min(10, e + 2)] around a requested value e
WithinTwo(x, e) ==
    /\ x >= (IF e - 2 >= 1 THEN e - 2 ELSE 1)
    /\ x <= (IF e + 2 <= 10 THEN e + 2 ELSE 10)

\* C6: every recommended song has its stored energy within two of the requested
\* energy, the band cut to 1..10, and likewise its valence
C6_EnergyValenceBand ==
    (resp.op = "recommend" /\ resp.status = 200) =>
        \A id \in Range(resp.songs) :
            /\ ~IsNull(resp.query.energy) =>
                  WithinTwo(songs[id].energy, Val(resp.query.energy))
            /\ ~IsNull(resp.query.valence) =>
                  WithinTwo(songs[id].valence, Val(resp.query.valence))

C6_Witness ==
    /\ resp.op = "recommend" /\ resp.status = 200
    /\ resp.query.energy = Some(8)
    /\ \E id \in Range(resp.songs) : songs[id].energy = 10
    /\ \E id \in Range(resp.songs) : songs[id].energy = 6
    /\ \E id \in DOMAIN songs \ Range(resp.songs) :
          /\ songs[id].isPublic
          /\ songs[id].energy = 5

\* the songs a request may use: visible to the requester and passing the filters
Matching(u, q) ==
    {id \in DOMAIN songs :
        /\ songs[id].isPublic \/ songs[id].uploadedBy = u
        /\ PassesFilters(id, q)}

\* the limit of a request, twenty when it names none
LimitOf(q) == IF IsNull(q.limit) THEN 20 ELSE Val(q.limit)

Min(a, b) == IF a <= b THEN a ELSE b

\* a outranks b: more plays, or as many plays and more likes
Outranks(a, b) ==
    \/ songs[a].playCount > songs[b].playCount
    \/ songs[a].playCount = songs[b].playCount /\ songs[a].likes > songs[b].likes

\* C9: with at least one matching song the request succeeds and the stored playlist
\* holds exactly min(limit, matches) distinct matching songs, the best ranked by
\* plays then likes, in rank order
C9_TopRankedMin ==
    (resp.op = "autoGenerate" /\ resp.status # 400) =>
        LET M == Matching(resp.user, resp.query)
            L == LimitOf(resp.query)
        IN  M # {} =>
              /\ resp.status = 200
              /\ resp.playlist \in DOMAIN playlists
              /\ LET list == playlists[resp.playlist].songs IN
                 /\ Len(list) = Min(L, Cardinality(M))
                 /\ Range(list) \subseteq M
                 /\ Cardinality(Range(list)) = Len(list)
                 /\ \A a \in M \ Range(list), b \in Range(list) : ~Outranks(a, b)
                 /\ \A i, j \in DOMAIN list : i < j => ~Outranks(list[j], list[i])

C9_Witness ==
    /\ resp.op = "autoGenerate" /\ resp.status = 200
    /\ Cardinality(Matching(resp.user, resp.query)) > LimitOf(resp.query)
    /\ Len(playlists[resp.playlist].songs) = LimitOf(resp.query)
    /\ \E a \in Matching(resp.user, resp.query) \ Generated, b \in Generated :
          Outranks(b, a)

\* C10: a valid request that no song matches is answered 404 and stores no playlist
C10_NoMatchNotFound ==
    [][(/\ resp'.op = "autoGenerate"
        /\ resp'.status # 400
        /\ Matching(resp'.user, resp'.query) = {})
       => (resp'.status = 404 /\ playlists' = playlists)]_vars

C10_Witness ==
    /\ resp.op = "autoGenerate" /\ resp.status = 404
    /\ songs # <<>>
    /\ Matching(resp.user, resp.query) = {}
    /\ playlists = <<>>

-----------------------------------------------------------------------------
(* Claims about stored playlists *)

\* C11: a playlist the generator stores is marked isAutoGenerated and records the
\* mood, tempo and genre of its request in generatedFor, and no request changes
\* isAutoGenerated or generatedFor of a stored playlist
C11_GeneratedForKept ==
    [][/\ (resp'.op = "autoGenerate" /\ resp'.status = 200) =>
             /\ resp'.playlist \in DOMAIN playlists' \ DOMAIN playlists
             /\ playlists'[resp'.playlist].isAutoGenerated = TRUE
             /\ playlists'[resp'.playlist].generatedFor =
                   [mood |-> resp'.query.mood, tempo |-> resp'.query.tempo,
                    genre |-> resp'.query.genre]
       /\ \A i \in DOMAIN playlists :
             /\ i \in DOMAIN playlists'
             /\ playlists'[i].isAutoGenerated = playlists[i].isAutoGenerated
             /\ playlists'[i].generatedFor = playlists[i].generatedFor]_vars

C11_Witness ==
    /\ resp.op = "updatePlaylist" /\ resp.status = 200
    /\ playlists[resp.playlist].isAutoGenerated
    /\ playlists[resp.playlist].generatedFor.mood = Some("happy")
    /\ playlists[resp.playlist].isPublic
    /\ playlists[resp.playlist].followers # {}
    /\ playlists[resp.playlist].playCount > 0

\* C19: adding a song the playlist already holds and removing a song it does not
\* hold leave the stored playlists as they are, and neither is refused for that
\* reason; no playlist ever holds a song twice
C19_IdempotentMembership ==
    [][/\ (/\ resp'.op = "addSong"
           /\ PlaylistExists(resp'.playlist)
           /\ resp'.song \in Range(playlists[resp'.playlist].songs)) =>
             /\ playlists' = playlists
             /\ (/\ playlists[resp'.playlist].owner = resp'.user
                 /\ resp'.song \in DOMAIN songs
                 /\ songs[resp'.song].isPublic
                      \/ songs[resp'.song].uploadedBy = resp'.user) =>
                   resp'.status = 200
       /\ (/\ resp'.op = "removeSong"
           /\ PlaylistExists(resp'.playlist)
           /\ resp'.song \notin Range(playlists[resp'.playlist].songs)) =>
             /\ playlists' = playlists
             /\ playlists[resp'.playlist].owner = resp'.user => resp'.status = 200
       /\ \A i \in DOMAIN playlists' : NoDuplicates(playlists'[i].songs)]_vars

C19_Witness ==
    /\ resp.op = "addSong" /\ resp.status = 200
    /\ Len(playlists[resp.playlist].songs) = 2
    /\ playlists[resp.playlist].songs[1] = resp.song
    /\ NoDuplicates(playlists[resp.playlist].songs)

-----------------------------------------------------------------------------
(* Claims about owned resources *)

MoodIdOps == {"getMood", "updateMood", "deleteMood"}

SongIdOps == {"getSong", "updateSong", "deleteSong"}

PlaylistIdOps == {"getPlaylist", "updatePlaylist", "deletePlaylist"}

SessionIdOps == {"getSession", "complete"}

\* the document the request answered by r names is stored
Stored(r) ==
    CASE r.op \in MoodIdOps -> MoodLogExists(r.log)
      [] r.op \in SongIdOps -> SongExists(r.song)
      [] r.op \in PlaylistIdOps -> PlaylistExists(r.playlist)
      [] r.op \in SessionIdOps ->
            \E i \in DOMAIN sessions : sessions[i].sessionId = r.sessionId

\* the stored document belongs to another user than the requester and, when the
\* request is a read, is not public
Foreign(r) ==
    CASE r.op \in MoodIdOps -> moodLogs[r.log].user # r.user
      [] r.op \in SongIdOps ->
            /\ songs[r.song].uploadedBy # r.user
            /\ r.op = "getSong" => ~songs[r.song].isPublic
      [] r.op \in PlaylistIdOps ->
            /\ playlists[r.playlist].owner # r.user
            /\ r.op = "getPlaylist" => ~playlists[r.playlist].isPublic
      [] r.op \in SessionIdOps ->
            \A i \in DOMAIN sessions :
                sessions[i].sessionId = r.sessionId => sessions[i].user # r.user

\* C20: a by-id read, update or delete of a mood log, song, playlist or game session
\* that passes the validators of its route is answered 404 when the document is not
\* stored and 403 when it is stored and belongs to another user (and, for a read,
\* is not public); in both cases no stored document changes
C20_OwnedById ==
    [][(resp'.op \in MoodIdOps \cup SongIdOps \cup PlaylistIdOps \cup SessionIdOps
          /\ resp'.status # 400) =>
        /\ ~Stored(resp') =>
              /\ resp'.status = 404
              /\ UNCHANGED <<moodLogs, songs, playlists, sessions>>
        /\ (Stored(resp') /\ Foreign(resp')) =>
              /\ resp'.status = 403
              /\ UNCHANGED <<moodLogs, songs, playlists, sessions>>]_vars

-----------------------------------------------------------------------------
(* Claims about analytics *)

\* the number of days a dashboard or trends request asks for, thirty by default
DaysOf(r) == IF IsNull(r.days) THEN 30 ELSE Val(r.days)

\* the documents of a collection that user u created in the last d days
Recent(coll, field, u, d) ==
    {i \in DOMAIN coll : coll[i][field] = u /\ coll[i].createdAt >= now - d * DayTicks}

Zero == [num |-> 0, den |-> 1]

\* C7: a kind of document the user has none of inside the window shows in the
\* dashboard overview as its zero-valued record
C7_ZeroDefaults ==
    (resp.op = "dashboard" /\ DaysOf(resp) \in 1..365) =>
        /\ resp.status = 200
        /\ Recent(moodLogs, "user", resp.user, DaysOf(resp)) = {} =>
              resp.overview.mood =
                 [totalMoodLogs |-> 0, avgMoodIntensity |-> Zero, uniqueMoods |-> {},
                  detectionMethods |-> {}]
        /\ Recent(playbackLogs, "user", resp.user, DaysOf(resp)) = {} =>
              resp.overview.listening =
                 [totalPlays |-> 0, totalListeningTime |-> Zero, avgCompletion |-> Zero,
                  uniqueSongs |-> {}, likedSongs |-> 0]
        /\ Recent(playlists, "owner", resp.user, DaysOf(resp)) = {} =>
              resp.overview.playlists =
                 [totalPlaylists |-> 0, totalSongsInPlaylists |-> 0,
                  avgPlaylistSize |-> Zero, publicPlaylists |-> 0]
        /\ Recent(sessions, "user", resp.user, DaysOf(resp)) = {} =>
              resp.overview.games =
                 [totalGameSessions |-> 0, completedSessions |-> 0, avgScore |-> Zero,
                  totalGameTime |-> 0, moodImprovements |-> 0]

C7_Witness ==
    /\ resp.op = "dashboard" /\ resp.status = 200
    /\ \E i \in DOMAIN moodLogs : moodLogs[i].user = resp.user
    /\ Recent(moodLogs, "user", resp.user, DaysOf(resp)) = {}
    /\ resp.overview.mood.totalMoodLogs = 0
    /\ resp.overview.mood.uniqueMoods = {}
    /\ resp.overview.games.totalGameSessions = 1

-----------------------------------------------------------------------------
(* Claims about interleaved game requests *)

\* C23: once every start request has been answered, the playCount of each game
\* is the number of sessions created for it: every successful start added
\* exactly one, whatever the interleaving of the requests' reads and writes.
C23_PlayCountCountsStarts ==
    (\A r \in DOMAIN inflight : inflight[r].op # "start") =>
        \A g \in GameIds :
            games[g].playCount
                = Cardinality({i \in DOMAIN sessions : sessions[i].game = g})

\* C24: a complete request is answered 200 only for a session that was not
\* completed in the store when the request's save wrote the completion fields
\* and achievements: of two interleaved complete requests for one session at
\* most one succeeds, and the fields are written once.
C24_CompletedOnce ==
    [][(resp'.op = "complete" /\ resp'.status = 200) =>
            \A i \in FindSession(resp'.sessionId, resp'.user) :
                ~sessions[i].completed]_vars

-----------------------------------------------------------------------------
(* Claims about the dashboard's recent activity *)

\* `list` holds the min(n, all) most recently created documents of user u in
\* the collection, the newest first
MostRecent(list, coll, u, n) ==
    LET S == {i \in DOMAIN coll : coll[i].user = u} IN
    /\ Len(list) = (IF Cardinality(S) < n THEN Cardinality(S) ELSE n)
    /\ \A a \in DOMAIN list : list[a] \in S
    /\ \A a, b \in DOMAIN list :
          a < b => list[a] # list[b] /\ coll[list[a]].createdAt >= coll[list[b]].createdAt
    /\ \A i \in S \ {list[a] : a \in DOMAIN list} :
          \A a \in DOMAIN list : coll[list[a]].createdAt >= coll[i].createdAt

\* C22: the dashboard's recent activity holds the user's 5 most recently
\* created mood logs, playback logs and game sessions (all of them when there
\* are fewer), the newest first.
C22_RecentActivityFiveEach ==
    (resp.op = "dashboard" /\ resp.status = 200) =>
        /\ MostRecent(resp.recentActivity.moods, moodLogs, resp.user, 5)
        /\ MostRecent(resp.recentActivity.plays, playbackLogs, resp.user, 5)
        /\ MostRecent(resp.recentActivity.games, sessions, resp.user, 5)

-----------------------------------------------------------------------------
(* Claims about the upload directory *)

\* the songs the store holds
StoredSongs == {i \in DOMAIN songs : songs[i].uploadedBy # NoOne}

\* C21: every file in the upload directory is the filePath of a stored song,
\* and after an upload answered with an error the file written for that
\* request is no longer in the directory.
C21_FailedUploadLeavesNoFile ==
    /\ [](files \subseteq {songs[i].filePath : i \in StoredSongs})
    /\ [][(resp'.op = "upload" /\ resp'.status >= 400 /\ ~IsNull(resp'.file))
            => Val(resp'.file) \notin files']_vars

\* a song is stored with its file, and an upload that came with a file has
\* just failed while saving
C21_Witness ==
    /\ resp.op = "upload" /\ resp.status = 500 /\ ~IsNull(resp.file)
    /\ files # {}

-----------------------------------------------------------------------------
(* Claims about the tap-the-notes game *)

\* C25: in a round of the game the note timer fires and adds a note: from the
\* beginning of a round (playing, timeLeft at its full 30 seconds, n notes made
\* so far) the countdown never runs out (playing, timeLeft 0) with still only
\* those n notes made, the last of which startGame made.
C25_NotesKeepAppearing ==
    \A n \in 2..(MaxTapNotes + 2) :
        []((tap.gameState = "playing" /\ tap.timeLeft = RoundSeconds /\ tap.nextId = n)
            => [](~(tap.gameState = "playing" /\ tap.timeLeft = 0 /\ tap.nextId = n)))

-----------------------------------------------------------------------------
(* Claims about the music store *)

\* C26: when the store has only ever been called through playSong, then
\* whenever every timeout has fired and a song is current, isPlaying is true
\* (the current song being the one of the last call, which no timeout
\* changes), however close in time the calls were.
C26_PlayingAfterPlaySong ==
    [](resp.op \in {"none", "playSong", "timeout"})
        => []((music.timers = <<>> /\ ~IsNull(music.currentSong)) => music.isPlaying)

\* C27: isPlaying is true only if there is a current song and its audio element
\* is playing, neither paused nor ended.
C27_PlayingMeansAudible ==
    music.isPlaying => (~IsNull(music.currentSong) /\ music.audio = Some("playing"))

\* from some time on the store is called only through playNext, and song s
\* stays in the queue
OnlyPlayNext(s) ==
    /\ resp.op \in {"none", "playNext", "timeout"}
    /\ \E k \in DOMAIN music.queue : music.queue[k] = s

\* C28: with an empty queue playNext and playPrevious leave currentSong as it
\* is; and when playNext is called again and again while nothing else is
\* called, every song that stays in the queue is the current song again and
\* again.
C28_PlayNextReachesEverySong ==
    /\ [][(resp'.op \in {"playNext", "playPrevious"} /\ music.queue = <<>>)
            => music'.currentSong = music.currentSong]_vars
    /\ \A s \in StoreSongs :
            (<>[]OnlyPlayNext(s) /\ []<>(resp.op = "playNext"))
                => []<>(music.currentSong = Some(s))

-----------------------------------------------------------------------------
(* Claims about the auth store *)

-----------------------------------------------------------------------------
(* Claims about the breathing exercise *)

\* the exercise was started and is paused
Paused(b) == b.gameState = "playing" /\ ~b.isPlaying

\* the phase after `phase` in the order inhale, hold, exhale, pause, inhale
Following(phase) == phases[(indexOf(phase) % Len(phases)) + 1]

\* C30: while the exercise goes on the phase changes only to the next one in
\* the order inhale, hold, exhale, pause; cycleCount changes only by one, and
\* does when a pause phase has finished; the state is completed exactly when
\* cycleCount equals totalCycles, which it never exceeds; while the exercise
\* stays paused timeLeft, currentPhase and cycleCount stay as they are; and
\* an exercise that plays is eventually completed, paused or stopped.
C30_BreathingCycles ==
    /\ [](/\ breath.cycleCount <= breath.totalCycles
          /\ (breath.gameState = "completed") <=> (breath.cycleCount = breath.totalCycles))
    /\ [][(breath.gameState = "playing" /\ breath'.gameState # "intro") =>
            /\ breath'.currentPhase # breath.currentPhase
                  => breath'.currentPhase = Following(breath.currentPhase)
            /\ breath'.cycleCount # breath.cycleCount
                  => /\ breath'.cycleCount = breath.cycleCount + 1
                     /\ breath.currentPhase = "pause" /\ breath.timeLeft = 0
            /\ (AtPhaseEnd(breath) /\ breath.currentPhase = "pause" /\ breath' # breath)
                  => breath'.cycleCount = breath.cycleCount + 1
            /\ (Paused(breath) /\ Paused(breath'))
                  => /\ breath'.timeLeft = breath.timeLeft
                     /\ breath'.currentPhase = breath.currentPhase
                     /\ breath'.cycleCount = breath.cycleCount]_vars
    /\ (breath.gameState = "playing" /\ breath.isPlaying)
            ~> (breath.gameState # "playing" \/ ~breath.isPlaying)

\* an exercise of two cycles of the 4-7-8 pattern, whose pause phase takes no
\* time, has been completed
C30_Witness ==
    /\ breath.gameState = "completed"
    /\ breath.selectedPattern = "4-7-8"
    /\ breath.cycleCount = 2 /\ breath.totalCycles = 2
    /\ breath.currentPhase = "pause" /\ breath.timeLeft = 0

-----------------------------------------------------------------------------
(* Specifications *)

Init ==
    /\ now = 0
    /\ resp = NoResp
    /\ games = InitGames
    /\ sessions = <<>>
    /\ moodLogs = <<>>
    /\ songs = <<>>
    /\ playlists = <<>>
    /\ files = {}
    /\ InitBrowser


SpecGame == Init /\ [][NextGame]_vars

SpecMood == Init /\ [][NextMood]_vars

InitAutoGen ==
    /\ now = 0
    /\ resp = NoResp
    /\ games = InitGames
    /\ sessions = <<>>
    /\ moodLogs = <<>>
    /\ songs \in Catalogs
    /\ playlists = <<>>
    /\ files = {}
    /\ InitBrowser

SpecRecommend == Init /\ [][NextRecommend]_vars

SpecAutoGen == InitAutoGen /\ [][NextAutoGen]_vars

SpecDashboard == Init /\ [][NextDashboard]_vars

SpecTrends == Init /\ [][NextTrends]_vars

InitPlaylist ==
    /\ now = 0
    /\ resp = NoResp
    /\ games = InitGames
    /\ sessions = <<>>
    /\ moodLogs = <<>>
    /\ songs = PlaylistRunSongs
    /\ playlists = <<>>
    /\ files = {}
    /\ InitBrowser

SpecPlaylist == InitPlaylist /\ [][NextPlaylist]_vars

SpecEdgeMood == Init /\ [][NextEdgeMood]_vars

SpecMoodById == Init /\ [][NextMoodById]_vars

SpecRate == Init /\ [][NextRate]_vars

SpecById == Init /\ [][NextById]_vars

SpecAverage == Init /\ [][NextAverage]_vars

SpecAchieve == Init /\ [][NextAchieve]_vars

\* time passes and due timers fire; the user need not do anything
\* time passes, the timer fires and the effect runs; the user need not do anything
SpecBreath ==
    Init /\ [][NextBreath]_vars
         /\ WF_vars(BreathElapse) /\ WF_vars(BreathTimeout) /\ WF_vars(BreathPhase)

\* time passes and due promises resolve
SpecAuth == Init /\ [][NextAuth]_vars /\ WF_vars(AuthElapse) /\ WF_vars(AuthResolve)

\* time passes and due timeouts fire; the user need not do anything
SpecMusic == Init /\ [][NextMusic]_vars /\ WF_vars(MusicElapse) /\ WF_vars(MusicTimeout)

SpecTap ==
    Init /\ [][NextTap]_vars /\ WF_vars(TapTime) /\ WF_vars(TapTimer) /\ WF_vars(TapRound)

SpecRace == Init /\ [][NextRace]_vars

SpecRecent == Init /\ [][NextRecent]_vars

SpecUpload == Init /\ [][NextUpload]_vars

====
